---- MODULE Spec2Model ----
(***************************************************************************)
(* A model of the DICOM scene processor of TracesEditor                    *)
(* (backend/protocols/dicom): asset resolution, connection derivation,     *)
(* presentation-context negotiation, DIMSE dataset construction and the    *)
(* TCP session synthesizer, as DicomSceneProcessor.process_scene drives    *)
(* them; the synthesizer called on its own (handler.py); and the traffic   *)
(* extractor (dicom_pcap_extractor.py).                                    *)
(***************************************************************************)
EXTENDS Integers, Sequences, FiniteSets, TLC

VARIABLES
    scene,        \* the Scene given to DicomSceneProcessor (assets, links); links are mutated in auto mode
    cache,        \* self._resolved_assets_cache: sequence of <<asset_id, properties>>
    all_packets,  \* the PacketList process_scene accumulates
    link_idx,     \* position of the `for link in self.scene.links` loop
    link_log,     \* per processed Link: the locals of its loop iteration
    pc,           \* "start", "links", "returned" or "raised"
    raised,       \* the exception process_scene propagated ("none" when it did not)
    uid_n,        \* number of UIDs pydicom's generate_uid has produced so far
    tcp,          \* a call of generate_dicom_session_packet_list: its arguments and its result
    ext,          \* a run of the traffic extractor: its input, its locals and its result
    job,          \* a background job: its AsyncJob row, its operation's locals, what it wrote
    anon          \* the module-level address maps of the anonymizer and the invocations using them

vars == <<scene, cache, all_packets, link_idx, link_log, pc, raised, uid_n, tcp, ext, job, anon>>

(***************************************************************************)
(* Bounds of the model.                                                    *)
(***************************************************************************)
MaxLinks == 2      \* Links per Scene in Spec
MaxContexts == 2   \* explicit presentation contexts per Link in SpecNeg
MaxSops == 2       \* supported SOP classes per Asset in SpecNeg
MaxOps == 2        \* DIMSE operations per Link in SpecData
MaxRules == 3      \* rules of one dataset in SpecOrder
MaxPayloads == 2   \* P-DATA-TF PDUs per session in SpecTcp
MaxPdvs == 2       \* PDVs per byte stream in SpecStream
MaxConnections == 2  \* Links per Scene in SpecPcap
MaxPackets == 102    \* packets of the largest TCP session in SpecJob
MaxSessions == 2     \* TCP sessions per capture in SpecJob
MaxRequests == 2     \* cancel requests per job in SpecJob
MaxAnonPackets == 2  \* packets of a capture in SpecAnon

(***************************************************************************)
(* Python values.                                                          *)
(***************************************************************************)
\* None for an Optional[str] field
None == "<None>"
\* None for an Optional[int] field
NoneInt == -1
\* Optional[List[...]] / Optional[model]: None, or a value
NoneOpt == [some |-> FALSE, v |-> <<>>]
Some(x) == [some |-> TRUE, v |-> x]

\* Python's `a or b` on Optional[str]: None and "" are falsy
StrOr(a, b) == IF a = None \/ a = "" THEN b ELSE a

SeqsUpTo(S, n) == UNION {[1..k -> S] : k \in 0..n}

Range(s) == {s[i] : i \in 1..Len(s)}

RECURSIVE Concat(_)
Concat(ss) == IF ss = <<>> THEN <<>> ELSE Head(ss) \o Concat(Tail(ss))

(***************************************************************************)
(* UIDs used by the inputs.                                                *)
(***************************************************************************)
Verification == "1.2.840.10008.1.1"
CTImageStorage == "1.2.840.10008.5.1.4.1.1.2"
MRImageStorage == "1.2.840.10008.5.1.4.1.1.4"
ImplicitVRLE == "1.2.840.10008.1.2"
ExplicitVRLE == "1.2.840.10008.1.2.1"
JPEGBaseline == "1.2.840.10008.1.2.4.50"

DEFAULT_APPLICATION_CONTEXT_NAME == "1.2.840.10008.3.1.1.1"
DEFAULT_IMPLEMENTATION_VERSION_NAME == "PYDICOM_GEN_V1"
DEFAULT_DICOM_PORT == 104
EPHEMERAL_PORT_MIN == 49152
EPHEMERAL_PORT_MAX == 65535
DEFAULT_CLIENT_ISN == 1000
DEFAULT_SERVER_ISN == 2000

\* pydicom's generate_uid: the n-th UID generated in this run, distinct from
\* every other generated UID and from the literal UIDs of the inputs
generate_uid(prefix, n) == prefix \o "gen." \o ToString(n)
DEFAULT_UID_PREFIX == "1.2.826.0.1.3680043.8.498."
STUDY_UID_PREFIX == "1.2.826.0.1.3680043.2.1143.1.1.1."
SERIES_UID_PREFIX == "1.2.826.0.1.3680043.2.1143.1.1.2."

(***************************************************************************)
(* str.upper() on the role strings of the inputs.                          *)
(***************************************************************************)
upper(s) ==
    CASE s = "scu" -> "SCU"
      [] s = "scp" -> "SCP"
      [] s = "both" -> "BOTH"
      [] s = "Both" -> "BOTH"
      [] OTHER -> s

(***************************************************************************)
(* Asset property resolution (resolver.py).                                *)
(***************************************************************************)
PropFields == {"ae_title", "implementation_class_uid", "implementation_version_name",
               "manufacturer", "model_name", "software_versions",
               "device_serial_number", "supported_sop_classes"}

\* AssetDicomProperties() with no field given: every field at its default None
DefaultProps ==
    [ae_title |-> None, implementation_class_uid |-> None,
     implementation_version_name |-> None, manufacturer |-> None,
     model_name |-> None, software_versions |-> NoneOpt,
     device_serial_number |-> None, supported_sop_classes |-> NoneOpt,
     fields_set |-> {}]

\* The template files of asset_templates/: a name maps to the outcome of
\* loading it: "missing" (no file), "bad_json", "no_key" (no dicom_properties
\* key), "bad_props" (properties that do not validate) or "ok" with properties
TemplateStore(name) ==
    CASE name = "TEMPLATE_GENERIC_CT_V1" ->
            [load |-> "ok",
             props |-> [DefaultProps EXCEPT
                !.ae_title = "TPL_CT_AE",
                !.implementation_class_uid = "1.2.3.TPL",
                !.manufacturer = "TemplateCorp",
                !.model_name = "TemplateScan",
                !.supported_sop_classes = Some(<<
                    [sop_class_uid |-> Verification, role |-> "SCU",
                     transfer_syntaxes |-> <<ImplicitVRLE>>],
                    [sop_class_uid |-> CTImageStorage, role |-> "SCU",
                     transfer_syntaxes |-> <<ExplicitVRLE>>] >>),
                !.fields_set = {"ae_title", "implementation_class_uid", "manufacturer",
                                "model_name", "supported_sop_classes"}]]
      [] name = "TEMPLATE_BAD_JSON" -> [load |-> "bad_json", props |-> DefaultProps]
      [] name = "TEMPLATE_NO_KEY" -> [load |-> "no_key", props |-> DefaultProps]
      [] name = "TEMPLATE_BAD_PROPS" -> [load |-> "bad_props", props |-> DefaultProps]
      [] OTHER -> [load |-> "missing", props |-> DefaultProps]

\* A variant that appends an overriding list to the list of the template
MergePropsAppendingLists(base, over) ==
    [f \in PropFields \cup {"fields_set"} |->
        IF f = "fields_set" THEN PropFields
        ELSE IF f \notin over.fields_set THEN base[f]
        ELSE IF f \in {"software_versions", "supported_sop_classes"}
                /\ base[f].some /\ over[f].some
        THEN Some(base[f].v \o over[f].v)
        ELSE over[f]]
\* merged_dict = base.model_dump(); merged_dict.update(asset.model_dump(exclude_unset=True))
MergeProps(base, over) ==
    [f \in PropFields \cup {"fields_set"} |->
        IF f = "fields_set" THEN PropFields
        ELSE IF f \in over.fields_set THEN over[f] ELSE base[f]]

\* A variant that falls back on the Asset's own properties when its template
\* cannot be loaded
ResolveWithoutTemplate(asset) ==
    IF asset.asset_template_id_ref = None \/ asset.asset_template_id_ref = ""
       \/ TemplateStore(asset.asset_template_id_ref).load # "ok"
    THEN [err |-> "none", props |-> asset.dicom_properties]
    ELSE [err |-> "none",
          props |-> MergeProps(TemplateStore(asset.asset_template_id_ref).props,
                               asset.dicom_properties)]

resolve_asset_dicom_properties(asset) ==
    IF asset.asset_template_id_ref = None \/ asset.asset_template_id_ref = ""
    THEN [err |-> "none", props |-> asset.dicom_properties]
    ELSE LET t == TemplateStore(asset.asset_template_id_ref)
         IN CASE t.load = "missing" ->
                    [err |-> "AssetTemplateNotFoundError", props |-> DefaultProps]
              [] t.load \in {"bad_json", "no_key", "bad_props"} ->
                    [err |-> "InvalidAssetTemplateError", props |-> DefaultProps]
              [] OTHER ->
                    [err |-> "none", props |-> MergeProps(t.props, asset.dicom_properties)]

(***************************************************************************)
(* DicomSceneProcessor lookups (scene_processor.py).                       *)
(***************************************************************************)
\* self._asset_map = {asset.asset_id: asset for asset in scene.assets}: the
\* last Asset of an id wins
AssetMapHas(assets, asset_id) == \E i \in 1..Len(assets) : assets[i].asset_id = asset_id
AssetMapGet(assets, asset_id) ==
    LET I == {i \in 1..Len(assets) : assets[i].asset_id = asset_id}
    IN assets[CHOOSE i \in I : \A j \in I : j <= i]

NoAsset == [asset_id |-> None, asset_template_id_ref |-> None, nodes |-> <<>>,
            dicom_properties |-> DefaultProps]
NoNode == [node_id |-> None, ip_address |-> None, mac_address |-> None,
           dicom_port |-> NoneInt]

get_asset_by_id(assets, asset_id) ==
    IF AssetMapHas(assets, asset_id)
    THEN [err |-> "none", asset |-> AssetMapGet(assets, asset_id)]
    ELSE [err |-> "AssetNotFoundError", asset |-> NoAsset]

get_node_from_asset(asset, node_id) ==
    LET I == {i \in 1..Len(asset.nodes) : asset.nodes[i].node_id = node_id}
    IN IF I # {}
       THEN [err |-> "none", node |-> asset.nodes[CHOOSE i \in I : \A j \in I : i <= j]]
       ELSE [err |-> "NodeNotFoundError", node |-> NoNode]

CacheHas(c, asset_id) == \E i \in 1..Len(c) : c[i][1] = asset_id
CacheGet(c, asset_id) == c[CHOOSE i \in 1..Len(c) : c[i][1] = asset_id][2]
CachePut(c, asset_id, props) ==
    IF CacheHas(c, asset_id)
    THEN [i \in 1..Len(c) |-> IF c[i][1] = asset_id THEN <<asset_id, props>> ELSE c[i]]
    ELSE Append(c, <<asset_id, props>>)

get_resolved_dicom_properties(assets, c, asset_id) ==
    IF CacheHas(c, asset_id)
    THEN [err |-> "none", props |-> CacheGet(c, asset_id), cache |-> c]
    ELSE LET a == get_asset_by_id(assets, asset_id)
         IN IF a.err # "none"
            THEN [err |-> a.err, props |-> DefaultProps, cache |-> c]
            ELSE LET r == resolve_asset_dicom_properties(a.asset)
                 IN IF r.err # "none"
                    THEN [err |-> "DicomSceneProcessorError", props |-> DefaultProps,
                          cache |-> c]
                    ELSE [err |-> "none", props |-> r.props,
                          cache |-> CachePut(c, asset_id, r.props)]

NoConn == [source_mac |-> None, destination_mac |-> None, source_ip |-> None,
           destination_ip |-> None, source_port |-> 0, destination_port |-> 0]

\* `sport` is the outcome of random.randint(49152, 65535)
derive_connection_details(assets, link, sport) ==
    IF link.connection_details.some
    THEN [err |-> "none", conn |-> link.connection_details.v]
    ELSE
    LET sa == get_asset_by_id(assets, link.source_asset_id_ref) IN
    IF sa.err # "none" THEN [err |-> sa.err, conn |-> NoConn] ELSE
    LET sn == get_node_from_asset(sa.asset, link.source_node_id_ref) IN
    IF sn.err # "none" THEN [err |-> sn.err, conn |-> NoConn] ELSE
    LET da == get_asset_by_id(assets, link.destination_asset_id_ref) IN
    IF da.err # "none" THEN [err |-> da.err, conn |-> NoConn] ELSE
    LET dn == get_node_from_asset(da.asset, link.destination_node_id_ref) IN
    IF dn.err # "none" THEN [err |-> dn.err, conn |-> NoConn] ELSE
    [err |-> "none",
     conn |-> [source_mac |-> sn.node.mac_address,
               destination_mac |-> dn.node.mac_address,
               source_ip |-> sn.node.ip_address,
               destination_ip |-> dn.node.ip_address,
               source_port |-> sport,
               destination_port |->
                   IF dn.node.dicom_port = NoneInt \/ dn.node.dicom_port = 0
                   THEN DEFAULT_DICOM_PORT ELSE dn.node.dicom_port]]

(***************************************************************************)
(* Presentation-context negotiation                                        *)
(* (DicomSceneProcessor._negotiate_presentation_contexts).                 *)
(***************************************************************************)
\* One result dict of the A-ASSOCIATE-AC in explicit mode: the first proposed
\* transfer syntax is accepted, an empty proposal is rejected with result 4
\* A variant that accepts a context that proposes no transfer syntax
AlwaysAccepted(pc_model) ==
    [id |-> pc_model.id, result |-> 0,
     transfer_syntax |-> IF pc_model.transfer_syntaxes # <<>>
                         THEN pc_model.transfer_syntaxes[1] ELSE ImplicitVRLE]
ExplicitAcResult(pc_model) ==
    IF pc_model.transfer_syntaxes # <<>>
    THEN [id |-> pc_model.id, result |-> 0,
          transfer_syntax |-> pc_model.transfer_syntaxes[1]]
    ELSE [id |-> pc_model.id, result |-> 4, transfer_syntax |-> ImplicitVRLE]

\* {sop.sop_class_uid: sop for sop in classes if sop.role.upper() in roles}:
\* the keys in order of first insertion, and the value the last one stored
SopMapKeys(classes, roles) ==
    LET F == SelectSeq(classes, LAMBDA sop : upper(sop.role) \in roles)
        firsts == {i \in 1..Len(F) :
                     \A j \in 1..(i - 1) : F[j].sop_class_uid # F[i].sop_class_uid}
        RECURSIVE Keys(_)
        Keys(i) == IF i > Len(F) THEN <<>>
                   ELSE (IF i \in firsts THEN <<F[i].sop_class_uid>> ELSE <<>>)
                        \o Keys(i + 1)
    IN Keys(1)

SopMapHas(classes, roles, uid) ==
    \E i \in 1..Len(classes) :
        upper(classes[i].role) \in roles /\ classes[i].sop_class_uid = uid

SopMapGet(classes, roles, uid) ==
    LET I == {i \in 1..Len(classes) :
                upper(classes[i].role) \in roles /\ classes[i].sop_class_uid = uid}
    IN classes[CHOOSE i \in I : \A j \in I : j <= i]

\* A variant that takes every transfer syntax of the SCU as common
AllScuTs(scu_ts, scp_ts) == scu_ts
\* [ts for ts in scu_ts if ts in scp_ts]
CommonTs(scu_ts, scp_ts) == SelectSeq(scu_ts, LAMBDA ts : ts \in Range(scp_ts))

\* A variant that accepts the last common transfer syntax
LastCommonTs(common_ts) == common_ts[Len(common_ts)]
\* the first transfer syntax the simulated SCP accepts
AcceptedTs(common_ts) == common_ts[1]

\* the transfer syntaxes the RQ context proposes for a negotiated abstract syntax
ProposedTs(scu_ts, common_ts) == scu_ts

\* A variant that takes the next integer as the next id
NextPcIdByOne(id) == id + 1
\* next_pc_id += 2
NextPcId(id) == id + 2

\* the `for scu_sop_uid, scu_sop_def in scu_sop_map.items()` loop
RECURSIVE AutoLoop(_, _, _, _, _, _)
AutoLoop(keys, scu_classes, scp_classes, next_pc_id, rq, ac) ==
    IF keys = <<>> THEN [rq |-> rq, ac |-> ac]
    ELSE LET uid == Head(keys)
             scu_def == SopMapGet(scu_classes, {"SCU", "BOTH"}, uid)
         IN IF ~SopMapHas(scp_classes, {"SCP", "BOTH"}, uid)
            THEN AutoLoop(Tail(keys), scu_classes, scp_classes, next_pc_id, rq, ac)
            ELSE LET scp_def == SopMapGet(scp_classes, {"SCP", "BOTH"}, uid)
                     common_ts == CommonTs(scu_def.transfer_syntaxes,
                                           scp_def.transfer_syntaxes)
                 IN IF common_ts = <<>>
                    THEN AutoLoop(Tail(keys), scu_classes, scp_classes,
                                  next_pc_id, rq, ac)
                    ELSE AutoLoop(Tail(keys), scu_classes, scp_classes,
                                  NextPcId(next_pc_id),
                                  Append(rq, [id |-> next_pc_id,
                                              abstract_syntax |-> uid,
                                              transfer_syntaxes |->
                                                  ProposedTs(scu_def.transfer_syntaxes,
                                                             common_ts)]),
                                  Append(ac, [id |-> next_pc_id, result |-> 0,
                                              transfer_syntax |-> AcceptedTs(common_ts)]))

\* A variant of auto mode that leaves the Link as it was given
ConfigLeftAlone(link_dicom_config, proposed_rq_contexts_models) == link_dicom_config
\* A variant of auto mode that also rewrites a reference of the Link
ConfigRewritten(link_dicom_config, proposed_rq_contexts_models) ==
    [link_dicom_config EXCEPT
        !.explicit_presentation_contexts = Some(proposed_rq_contexts_models),
        !.scp_asset_id_ref = link_dicom_config.scu_asset_id_ref]
\* `link_dicom_config.explicit_presentation_contexts =
\*  list(proposed_rq_contexts_models)` at the end of auto mode
UpdatedConfig(link_dicom_config, proposed_rq_contexts_models) ==
    [link_dicom_config EXCEPT
        !.explicit_presentation_contexts = Some(proposed_rq_contexts_models)]

\* Returns the RQ contexts, the AC results and the link's dicom_config, which
\* auto mode updates; iterating a supported_sop_classes of None is a TypeError
negotiate_presentation_contexts(link_dicom_config, scu_props, scp_props) ==
    IF link_dicom_config.explicit_presentation_contexts.some
    THEN LET pcs == link_dicom_config.explicit_presentation_contexts.v
         IN [err |-> "none", rq |-> pcs,
             ac |-> [i \in 1..Len(pcs) |-> ExplicitAcResult(pcs[i])],
             cfg |-> link_dicom_config]
    ELSE IF ~scu_props.supported_sop_classes.some \/ ~scp_props.supported_sop_classes.some
    THEN [err |-> "TypeError", rq |-> <<>>, ac |-> <<>>, cfg |-> link_dicom_config]
    ELSE LET scu_classes == scu_props.supported_sop_classes.v
             scp_classes == scp_props.supported_sop_classes.v
             r == AutoLoop(SopMapKeys(scu_classes, {"SCU", "BOTH"}),
                           scu_classes, scp_classes, 1, <<>>, <<>>)
         IN [err |-> "none", rq |-> r.rq, ac |-> r.ac,
             cfg |-> UpdatedConfig(link_dicom_config, r.rq)]

(***************************************************************************)
(* DICOM values and datasets (pydicom Dataset).  A value is a string, an   *)
(* integer, Python's None, a list of strings or a sequence of datasets; a  *)
(* dataset is a sequence of <<keyword, value>>.                            *)
(***************************************************************************)
VS(str) == [k |-> "s", s |-> str, i |-> 0, l |-> <<>>]
VI(int) == [k |-> "i", s |-> "", i |-> int, l |-> <<>>]
VNone == [k |-> "none", s |-> "", i |-> 0, l |-> <<>>]
VL(list) == [k |-> "strs", s |-> "", i |-> 0, l |-> list]
VDict(rules) == [k |-> "dict", s |-> "", i |-> 0, l |-> rules]
VSeq(items) == [k |-> "seq", s |-> "", i |-> 0, l |-> items]

VEq(a, b) == a.k = b.k /\ a.s = b.s /\ a.i = b.i /\ a.l = b.l

OptStr(x) == IF x = None THEN VNone ELSE VS(x)
OptList(x) == IF x.some THEN VL(x.v) ELSE VNone

DsHas(ds, tag) == \E i \in 1..Len(ds) : ds[i][1] = tag
DsGet(ds, tag) == IF DsHas(ds, tag)
                  THEN ds[CHOOSE i \in 1..Len(ds) : ds[i][1] = tag][2]
                  ELSE VNone
\* setattr(ds, tag, value)
DsSet(ds, tag, value) ==
    IF DsHas(ds, tag)
    THEN [i \in 1..Len(ds) |-> IF ds[i][1] = tag THEN <<tag, value>> ELSE ds[i]]
    ELSE Append(ds, <<tag, value>>)

RECURSIVE DsSetAll(_, _)
DsSetAll(ds, pairs) ==
    IF pairs = <<>> THEN ds
    ELSE DsSetAll(DsSet(ds, Head(pairs)[1], Head(pairs)[2]), Tail(pairs))

StartsWith(str, prefix) ==
    Len(str) >= Len(prefix) /\ SubSeq(str, 1, Len(prefix)) = prefix

(***************************************************************************)
(* The command dataset (dataset_builder._build_command_dataset).           *)
(***************************************************************************)
build_command_dataset(command_set, auto_uid, n) ==
    LET d0 == DsSetAll(<<>>, command_set.extra_fields)
        d1 == DsSet(d0, "MessageID", VI(command_set.MessageID))
        d2 == IF command_set.Priority # NoneInt
              THEN DsSet(d1, "Priority", VI(command_set.Priority)) ELSE d1
        d3 == IF command_set.AffectedSOPClassUID # None
              THEN DsSet(d2, "AffectedSOPClassUID", VS(command_set.AffectedSOPClassUID))
              ELSE d2
    IN IF command_set.AffectedSOPInstanceUID = "AUTO_GENERATE_UID_INSTANCE"
       THEN IF auto_uid # None /\ auto_uid # ""
            THEN [ds |-> DsSet(d3, "AffectedSOPInstanceUID", VS(auto_uid)), n |-> n]
            ELSE [ds |-> DsSet(d3, "AffectedSOPInstanceUID",
                               VS(generate_uid(DEFAULT_UID_PREFIX, n + 1))),
                  n |-> n + 1]
       ELSE IF command_set.AffectedSOPInstanceUID # None
            THEN [ds |-> DsSet(d3, "AffectedSOPInstanceUID",
                               VS(command_set.AffectedSOPInstanceUID)), n |-> n]
            ELSE [ds |-> d3, n |-> n]

(***************************************************************************)
(* The data dataset (dataset_builder._build_data_dataset).                 *)
(***************************************************************************)
SAMPLE_PATIENT_NAMES ==
    <<"DOE^JOHN", "ROE^JANE", "SMITH^ROBERT", "WILLIAMS^MARY", "BROWN^JAMES",
      "JONES^PATRICIA", "GARCIA^LINDA", "MILLER^DAVID", "DAVIS^ELIZABETH">>

\* The tag keywords of the inputs, in Python's ascending string order
KeywordOrder ==
    <<"DeviceSerialNumber", "InstitutionName", "Manufacturer", "ManufacturerModelName",
      "Modality", "ModelName", "PatientID", "PatientName", "ReferencedSOPSequence",
      "ReferencedStudySequence", "SOPClassUID", "SOPInstanceUID", "SeriesInstanceUID",
      "SoftwareVersions", "StationName", "StudyDate", "StudyInstanceUID">>

KeywordRank(tag) == CHOOSE i \in 1..Len(KeywordOrder) : KeywordOrder[i] = tag

\* list.sort(key=lambda item: item[0]) on rules of distinct keywords
RECURSIVE SortByKeyword(_)
SortByKeyword(items) ==
    IF items = <<>> THEN <<>>
    ELSE LET m == CHOOSE i \in 1..Len(items) :
                    \A j \in 1..Len(items) :
                        KeywordRank(items[i][1]) <= KeywordRank(items[j][1])
         IN <<items[m]>> \o
            SortByKeyword([j \in 1..(Len(items) - 1) |->
                              IF j < m THEN items[j] ELSE items[j + 1]])

IsStr(rule, str) == rule.k = "s" /\ rule.s = str

\* A variant that sorts the rules by keyword without grouping them
SortedWithoutGroups(rules) == SortByKeyword(rules)
\* ordered_processing_list: study, series, instance UID rules, then the others
OrderedProcessingList(rules) ==
    SortByKeyword(SelectSeq(rules, LAMBDA it : IsStr(it[2], "AUTO_GENERATE_UID_STUDY")))
    \o SortByKeyword(SelectSeq(rules, LAMBDA it : IsStr(it[2], "AUTO_GENERATE_UID_SERIES")))
    \o SortByKeyword(SelectSeq(rules, LAMBDA it : IsStr(it[2], "AUTO_GENERATE_UID_INSTANCE")))
    \o SortByKeyword(SelectSeq(rules, LAMBDA it :
            ~IsStr(it[2], "AUTO_GENERATE_UID_STUDY")
            /\ ~IsStr(it[2], "AUTO_GENERATE_UID_SERIES")
            /\ ~IsStr(it[2], "AUTO_GENERATE_UID_INSTANCE")))

\* The value of an AUTO_GENERATE_UID_INSTANCE rule: the command's
\* AffectedSOPInstanceUID for the SOPInstanceUID tag when the command has one
InstanceUidRule(tag, cmd_ds, n) ==
    IF tag = "SOPInstanceUID" /\ DsHas(cmd_ds, "AffectedSOPInstanceUID")
    THEN [value |-> DsGet(cmd_ds, "AffectedSOPInstanceUID"), n |-> n]
    ELSE [value |-> VS(generate_uid(DEFAULT_UID_PREFIX, n + 1)), n |-> n + 1]

\* The value of an AUTO_FROM_COMMAND_AFFECTED_SOP_INSTANCE_UID rule
FromCommandInstanceUid(cmd_ds) == DsGet(cmd_ds, "AffectedSOPInstanceUID")

\* One AUTO_ string rule; `name` is the outcome of random.choice
ResolveAutoRule(tag, str, cmd_ds, scu, scp, n, name) ==
    CASE str = "AUTO_FROM_COMMAND_AFFECTED_SOP_CLASS_UID" ->
            [value |-> DsGet(cmd_ds, "AffectedSOPClassUID"), n |-> n]
      [] str = "AUTO_FROM_COMMAND_AFFECTED_SOP_INSTANCE_UID" ->
            [value |-> FromCommandInstanceUid(cmd_ds), n |-> n]
      [] str = "AUTO_GENERATE_UID_INSTANCE" -> InstanceUidRule(tag, cmd_ds, n)
      [] str = "AUTO_GENERATE_UID_STUDY" ->
            [value |-> VS(generate_uid(STUDY_UID_PREFIX, n + 1)), n |-> n + 1]
      [] str = "AUTO_GENERATE_UID_SERIES" ->
            [value |-> VS(generate_uid(SERIES_UID_PREFIX, n + 1)), n |-> n + 1]
      [] str = "AUTO_GENERATE_UID" ->
            [value |-> VS(generate_uid(DEFAULT_UID_PREFIX, n + 1)), n |-> n + 1]
      [] str = "AUTO_GENERATE_SAMPLE_PATIENT_NAME" ->
            [value |-> VS(SAMPLE_PATIENT_NAMES[name]), n |-> n]
      [] str = "AUTO_GENERATE_SAMPLE_DATE_TODAY" -> [value |-> VS("20261106"), n |-> n]
      [] str = "AUTO_FROM_ASSET_SCU_AE_TITLE" -> [value |-> OptStr(scu.ae_title), n |-> n]
      [] str = "AUTO_FROM_ASSET_SCP_AE_TITLE" -> [value |-> OptStr(scp.ae_title), n |-> n]
      [] str = "AUTO_FROM_ASSET_SCU_MANUFACTURER" ->
            [value |-> OptStr(scu.manufacturer), n |-> n]
      [] str = "AUTO_FROM_ASSET_SCP_MANUFACTURER" ->
            [value |-> OptStr(scp.manufacturer), n |-> n]
      [] str = "AUTO_FROM_ASSET_SCU_MODEL_NAME" -> [value |-> OptStr(scu.model_name), n |-> n]
      [] str = "AUTO_FROM_ASSET_SCP_MODEL_NAME" -> [value |-> OptStr(scp.model_name), n |-> n]
      [] str = "AUTO_FROM_ASSET_SCU_SOFTWARE_VERSIONS" ->
            [value |-> OptList(scu.software_versions), n |-> n]
      [] str = "AUTO_FROM_ASSET_SCP_SOFTWARE_VERSIONS" ->
            [value |-> OptList(scp.software_versions), n |-> n]
      [] str = "AUTO_FROM_ASSET_SCU_DEVICE_SERIAL_NUMBER" ->
            [value |-> OptStr(scu.device_serial_number), n |-> n]
      [] str = "AUTO_FROM_ASSET_SCP_DEVICE_SERIAL_NUMBER" ->
            [value |-> OptStr(scp.device_serial_number), n |-> n]
      [] OTHER -> [value |-> VS(str), n |-> n]

\* The keyword a rule's value is stored under
ActualKeyword(tag, rule) ==
    IF tag = "ModelName" /\ (IsStr(rule, "AUTO_FROM_ASSET_SCU_MODEL_NAME")
                             \/ IsStr(rule, "AUTO_FROM_ASSET_SCP_MODEL_NAME"))
    THEN "ManufacturerModelName" ELSE tag

\* Whether a resolved value is written: a None is written only for an explicit
\* (non AUTO_) rule
IsWritten(rule, value) ==
    value.k # "none" \/ ~(rule.k = "s" /\ StartsWith(rule.s, "AUTO_"))

\* Returns [none, ds, n, order]: `none` when the function returns None, `order`
\* the keywords in the order their rules were resolved
RECURSIVE build_data_dataset(_, _, _, _, _, _)
build_data_dataset(rules, cmd_ds, scu, scp, n0, name) ==
    LET RECURSIVE Items(_, _)
        \* `for item_rules in rule_or_value`: the datasets of the dict items
        Items(list, n) ==
            IF list = <<>> THEN [dss |-> <<>>, n |-> n]
            ELSE IF Head(list).k # "dict" THEN Items(Tail(list), n)
            ELSE LET d == build_data_dataset(Head(list).l, cmd_ds, scu, scp, n, name)
                     rest == Items(Tail(list), d.n)
                 IN [dss |-> (IF d.none THEN <<>> ELSE <<d.ds>>) \o rest.dss,
                     n |-> rest.n]
        Resolve(tag, rule, n) ==
            IF rule.k = "s" /\ StartsWith(rule.s, "AUTO_")
            THEN ResolveAutoRule(tag, rule.s, cmd_ds, scu, scp, n, name)
            ELSE IF rule.k = "dict"
            THEN LET d == build_data_dataset(rule.l, cmd_ds, scu, scp, n, name)
                 IN [value |-> VSeq(IF d.none THEN <<>> ELSE <<d.ds>>), n |-> d.n]
            ELSE IF rule.k = "list"
            THEN LET r == Items(rule.l, n) IN [value |-> VSeq(r.dss), n |-> r.n]
            ELSE [value |-> rule, n |-> n]
        RECURSIVE Loop(_, _, _, _, _)
        Loop(todo, ds, has, n, order) ==
            IF todo = <<>> THEN [none |-> ~has, ds |-> ds, n |-> n, order |-> order]
            ELSE LET tag == Head(todo)[1]
                     rule == Head(todo)[2]
                     r == Resolve(tag, rule, n)
                 IN IF IsWritten(rule, r.value)
                    THEN Loop(Tail(todo), DsSet(ds, ActualKeyword(tag, rule), r.value),
                              TRUE, r.n, Append(order, tag))
                    ELSE Loop(Tail(todo), ds, has, r.n, Append(order, tag))
    IN IF rules = <<>>
       THEN [none |-> TRUE, ds |-> <<>>, n |-> n0, order |-> <<>>]
       ELSE Loop(OrderedProcessingList(rules), <<>>, FALSE, n0, <<>>)

(***************************************************************************)
(* PDU construction (utils.py, pdu_wrappers.py).  A PDU is kept as its     *)
(* decoded content together with the length of its encoding.               *)
(***************************************************************************)
\* b'': no PDU bytes
NoPdu == [pdu_type |-> 0, calling_ae_title |-> "", called_ae_title |-> "",
          contexts |-> <<>>, results |-> <<>>, pdvs |-> <<>>, len |-> 0]

RECURSIVE SumSeq(_)
SumSeq(ints) == IF ints = <<>> THEN 0 ELSE Head(ints) + SumSeq(Tail(ints))
SumLen(seq, Op(_)) == SumSeq([i \in 1..Len(seq) |-> Op(seq[i])])

Pad2(n) == n + (n % 2)
SubItemLen(str) == 4 + Len(str)
\* the fixed part of an A-ASSOCIATE PDU: header, version, reserved, AE titles
ASSOCIATE_FIXED_LEN == 74
UserInfoLen(impl_uid, impl_version) ==
    4 + 8 + SubItemLen(IF impl_uid = None THEN "" ELSE impl_uid) + SubItemLen(impl_version)
RqContextLen(ctx) ==
    8 + SubItemLen(ctx.abstract_syntax) + SumLen(ctx.transfer_syntaxes, SubItemLen)
AcContextLen(res) == 8 + SubItemLen(res.transfer_syntax)

\* pynetdicom's PresentationContext.context_id setter accepts only an odd
\* integer between 1 and 255
ValidContextId(id) == id >= 1 /\ id <= 255 /\ id % 2 = 1

create_associate_rq_pdu(calling, called, app_context, contexts, impl_uid, impl_version) ==
    IF \E i \in 1..Len(contexts) : ~ValidContextId(contexts[i].id)
    THEN [err |-> "ValueError", pdu |-> NoPdu]
    ELSE [err |-> "none",
          pdu |-> [pdu_type |-> 1, calling_ae_title |-> calling,
                   called_ae_title |-> called, contexts |-> contexts,
                   results |-> <<>>, pdvs |-> <<>>,
                   len |-> ASSOCIATE_FIXED_LEN + SubItemLen(app_context)
                           + SumLen(contexts, RqContextLen)
                           + UserInfoLen(impl_uid, impl_version)]]

\* The contexts the RQ is built from: the link's explicit_presentation_contexts
\* when that list is not empty
RqContextsInput(link_dicom_config) ==
    IF link_dicom_config.explicit_presentation_contexts.some
    THEN link_dicom_config.explicit_presentation_contexts.v
    ELSE <<>>

create_scene_associate_rq_pdu(link_dicom_config, scu_props, scp_props) ==
    create_associate_rq_pdu(
        StrOr(link_dicom_config.calling_ae_title_override, scu_props.ae_title),
        StrOr(link_dicom_config.called_ae_title_override, scp_props.ae_title),
        DEFAULT_APPLICATION_CONTEXT_NAME,
        RqContextsInput(link_dicom_config),
        scu_props.implementation_class_uid,
        StrOr(scu_props.implementation_version_name, DEFAULT_IMPLEMENTATION_VERSION_NAME))

\* A rejected context still carries Implicit VR Little Endian
AcContextItem(res) ==
    [id |-> res.id, result |-> res.result,
     transfer_syntax |-> IF res.result = 0 THEN res.transfer_syntax ELSE ImplicitVRLE]

create_associate_ac_pdu(calling, called, app_context, results, impl_uid, impl_version) ==
    IF \E i \in 1..Len(results) : ~ValidContextId(results[i].id)
    THEN [err |-> "ValueError", pdu |-> NoPdu]
    ELSE LET items == [i \in 1..Len(results) |-> AcContextItem(results[i])]
         IN [err |-> "none",
             pdu |-> [pdu_type |-> 2, calling_ae_title |-> calling,
                      called_ae_title |-> called, contexts |-> <<>>,
                      results |-> items, pdvs |-> <<>>,
                      len |-> ASSOCIATE_FIXED_LEN + SubItemLen(app_context)
                              + SumLen(items, AcContextLen)
                              + UserInfoLen(impl_uid, impl_version)]]

create_scene_associate_ac_pdu(calling, called, scp_props, app_context, results) ==
    create_associate_ac_pdu(calling, called, app_context, results,
        scp_props.implementation_class_uid,
        StrOr(scp_props.implementation_version_name, DEFAULT_IMPLEMENTATION_VERSION_NAME))

\* The length of a dataset written by pydicom: per element an 8-byte header
\* and the value padded to an even length
RECURSIVE DatasetLen(_)
DatasetLen(ds) ==
    LET StrsLen(l) == SumLen(l, Len) + (IF l = <<>> THEN 0 ELSE Len(l) - 1)
        ItemLen(item) == 8 + DatasetLen(item)
        ValueLen(v) == CASE v.k = "s" -> Len(v.s)
                         [] v.k = "i" -> 2
                         [] v.k = "strs" -> StrsLen(v.l)
                         [] v.k = "seq" -> SumLen(v.l, ItemLen)
                         [] OTHER -> 0
        ElemLen(e) == 8 + Pad2(ValueLen(e[2]))
    IN SumLen(ds, ElemLen)

\* Message control header: command 0x03, data 0x02 (always the last fragment)
MessageControlHeader(is_command) == IF is_command THEN 3 ELSE 2

\* `ts` is the transfer syntax the dataset is encoded with
create_p_data_tf_pdu(ds, presentation_context_id, is_command, ts) ==
    [pdu_type |-> 4, calling_ae_title |-> "", called_ae_title |-> "",
     contexts |-> <<>>, results |-> <<>>,
     pdvs |-> <<[presentation_context_id |-> presentation_context_id,
                 mch |-> MessageControlHeader(is_command),
                 transfer_syntax |-> ts, dataset |-> ds]>>,
     len |-> 6 + 4 + 2 + DatasetLen(ds)]

(***************************************************************************)
(* dataset_builder.generate_p_data_tf_pdus_for_dimse_operation             *)
(***************************************************************************)
RulesOf(operation) ==
    IF operation.dataset_content_rules.some THEN operation.dataset_content_rules.v
    ELSE <<>>

\* Whether the function generates the command's UID itself
GeneratesCommandUid(operation, shared_uid) ==
    /\ operation.command_set.AffectedSOPInstanceUID = "AUTO_GENERATE_UID_INSTANCE"
    /\ shared_uid = None

\* The PDUs of an operation from its command dataset `cmd` and its data
\* dataset `data`: the data PDU only for a dataset that has elements
PDataPdus(operation, ts, cmd, data) ==
    [pdus |-> <<create_p_data_tf_pdu(cmd.ds, operation.presentation_context_id, TRUE, ts)>>
              \o (IF RulesOf(operation) # <<>> /\ ~data.none /\ data.ds # <<>>
                  THEN <<create_p_data_tf_pdu(data.ds, operation.presentation_context_id,
                                              FALSE, ts)>>
                  ELSE <<>>),
     n |-> data.n, order |-> data.order]

PDataWithCommand(operation, scu, scp, ts, name, cmd) ==
    PDataPdus(operation, ts, cmd,
              build_data_dataset(RulesOf(operation), cmd.ds, scu, scp, cmd.n, name))

generate_p_data_tf_pdus_for_dimse_operation(operation, scu, scp, ts, shared_uid, n, name) ==
    PDataWithCommand(operation, scu, scp, ts, name,
        build_command_dataset(
            operation.command_set,
            IF GeneratesCommandUid(operation, shared_uid)
            THEN generate_uid(DEFAULT_UID_PREFIX, n + 1) ELSE shared_uid,
            IF GeneratesCommandUid(operation, shared_uid) THEN n + 1 ELSE n))

(***************************************************************************)
(* The TCP session synthesizer (handler.generate_dicom_session_packet_list)*)
(***************************************************************************)
Segment(conn, dir, flags, seq, ack, payload) ==
    [dir |-> dir,
     src_mac |-> IF dir = "c2s" THEN conn.source_mac ELSE conn.destination_mac,
     dst_mac |-> IF dir = "c2s" THEN conn.destination_mac ELSE conn.source_mac,
     src_ip |-> IF dir = "c2s" THEN conn.source_ip ELSE conn.destination_ip,
     dst_ip |-> IF dir = "c2s" THEN conn.destination_ip ELSE conn.source_ip,
     sport |-> IF dir = "c2s" THEN conn.source_port ELSE conn.destination_port,
     dport |-> IF dir = "c2s" THEN conn.destination_port ELSE conn.source_port,
     flags |-> flags, seq |-> seq, ack |-> ack, payload |-> payload]

\* A variant whose server acknowledges the sequence number the P-DATA-TF
\* segment started at
RECURSIVE PDataSegmentsStaleAck(_, _, _, _)
PDataSegmentsStaleAck(conn, pdus, scu_seq, scp_seq) ==
    IF pdus = <<>> THEN <<>>
    ELSE <<Segment(conn, "c2s", "PA", scu_seq, scp_seq, Head(pdus)),
           Segment(conn, "s2c", "A", scp_seq, scu_seq, NoPdu)>>
         \o PDataSegmentsStaleAck(conn, Tail(pdus), scu_seq + Head(pdus).len, scp_seq)

\* A variant whose server sends its pure ACK one sequence number ahead
RECURSIVE PDataSegmentsAckConsumesSeq(_, _, _, _)
PDataSegmentsAckConsumesSeq(conn, pdus, scu_seq, scp_seq) ==
    IF pdus = <<>> THEN <<>>
    ELSE <<Segment(conn, "c2s", "PA", scu_seq, scp_seq, Head(pdus)),
           Segment(conn, "s2c", "A", scp_seq + 1, scu_seq + Head(pdus).len, NoPdu)>>
         \o PDataSegmentsAckConsumesSeq(conn, Tail(pdus), scu_seq + Head(pdus).len,
                                        scp_seq)

\* A variant that sends the P-DATA-TF PDUs without the PSH flag
RECURSIVE PDataSegmentsNoPush(_, _, _, _)
PDataSegmentsNoPush(conn, pdus, scu_seq, scp_seq) ==
    IF pdus = <<>> THEN <<>>
    ELSE <<Segment(conn, "c2s", "A", scu_seq, scp_seq, Head(pdus)),
           Segment(conn, "s2c", "A", scp_seq, scu_seq + Head(pdus).len, NoPdu)>>
         \o PDataSegmentsNoPush(conn, Tail(pdus), scu_seq + Head(pdus).len, scp_seq)

\* A variant whose server does not acknowledge the P-DATA-TF PDUs
RECURSIVE PDataSegmentsNoAck(_, _, _, _)
PDataSegmentsNoAck(conn, pdus, scu_seq, scp_seq) ==
    IF pdus = <<>> THEN <<>>
    ELSE <<Segment(conn, "c2s", "PA", scu_seq, scp_seq, Head(pdus))>>
         \o PDataSegmentsNoAck(conn, Tail(pdus), scu_seq + Head(pdus).len, scp_seq)

\* `for p_data_pdu_bytes in p_data_tf_pdu_list`: the PSH/ACK of the client
\* and the ACK of the server
RECURSIVE PDataSegments(_, _, _, _)
PDataSegments(conn, pdus, scu_seq, scp_seq) ==
    IF pdus = <<>> THEN <<>>
    ELSE <<Segment(conn, "c2s", "PA", scu_seq, scp_seq, Head(pdus)),
           Segment(conn, "s2c", "A", scp_seq, scu_seq + Head(pdus).len, NoPdu)>>
         \o PDataSegments(conn, Tail(pdus), scu_seq + Head(pdus).len, scp_seq)

generate_dicom_session_packet_list(conn, rq, ac, p_data_tf_pdu_list, client_isn, server_isn) ==
    LET c1 == client_isn + 1
        s1 == server_isn + 1
        c2 == c1 + rq.len
        s2 == s1 + ac.len
        c3 == c2 + SumLen(p_data_tf_pdu_list, LAMBDA p : p.len)
    IN <<Segment(conn, "c2s", "S", client_isn, 0, NoPdu),
         Segment(conn, "s2c", "SA", server_isn, c1, NoPdu),
         Segment(conn, "c2s", "A", c1, s1, NoPdu),
         Segment(conn, "c2s", "PA", c1, s1, rq),
         Segment(conn, "s2c", "A", s1, c2, NoPdu),
         Segment(conn, "s2c", "PA", s1, c2, ac),
         Segment(conn, "c2s", "A", c2, s2, NoPdu)>>
       \o PDataSegments(conn, p_data_tf_pdu_list, c2, s2)
       \o <<Segment(conn, "c2s", "FA", c3, s2, NoPdu),
            Segment(conn, "s2c", "A", s2, c3 + 1, NoPdu),
            Segment(conn, "s2c", "FA", s2, c3 + 1, NoPdu),
            Segment(conn, "c2s", "A", c3 + 1, s2 + 1, NoPdu)>>

\* No run of the extractor
NoRun == [stream |-> <<>>, result |-> NoneOpt]
\* No background job, no anonymization invocation
NoJob == [driver |-> "none"]
NoAnon == [ip_map |-> <<>>, mac_map |-> <<>>, inv |-> <<>>]

\* No call of the synthesizer on its own
NoCall == [network_params |-> NoConn, associate_rq_pdu_bytes |-> NoPdu,
           associate_ac_pdu_bytes |-> NoPdu, p_data_tf_pdu_list |-> <<>>,
           client_isn |-> 0, server_isn |-> 0, packets |-> <<>>]

(***************************************************************************)
(* One iteration of `for link in self.scene.links` in process_scene.       *)
(***************************************************************************)
\* The presentation-context id of the accepted Verification context, or
\* NoneInt: the default DIMSE sequence of a Link whose dimse_sequence is empty
VerificationPcId(rq, ac) ==
    LET RqModel(id) == {i \in 1..Len(rq) : rq[i].id = id}
        First(id) == CHOOSE i \in RqModel(id) : \A j \in RqModel(id) : i <= j
        hits == {k \in 1..Len(ac) :
                    /\ RqModel(ac[k].id) # {}
                    /\ rq[First(ac[k].id)].abstract_syntax = Verification
                    /\ ac[k].result = 0}
    IN IF hits = {} THEN NoneInt
       ELSE ac[CHOOSE k \in hits : \A j \in hits : k <= j].id

DefaultEchoOp(verification_pc_id) ==
    [operation_name |-> "Automatic C-ECHO Request",
     message_type |-> "C-ECHO-RQ",
     presentation_context_id |-> verification_pc_id,
     command_set |-> [MessageID |-> 1, Priority |-> NoneInt,
                      AffectedSOPClassUID |-> Verification,
                      AffectedSOPInstanceUID |-> None, extra_fields |-> <<>>],
     dataset_content_rules |-> NoneOpt]

CurrentDimseSequence(link_dicom_config, rq, ac) ==
    IF link_dicom_config.dimse_sequence # <<>> THEN link_dicom_config.dimse_sequence
    ELSE IF VerificationPcId(rq, ac) # NoneInt
         THEN <<DefaultEchoOp(VerificationPcId(rq, ac))>>
         ELSE <<>>

\* Whether process_scene generates one UID for the command and the dataset
NeedsSharedUid(op) ==
    /\ op.message_type = "C-STORE-RQ"
    /\ op.command_set.AffectedSOPInstanceUID = "AUTO_GENERATE_UID_INSTANCE"
    /\ RulesOf(op) # <<>>
    /\ DsHas(RulesOf(op), "SOPInstanceUID")
    /\ IsStr(DsGet(RulesOf(op), "SOPInstanceUID"),
             "AUTO_FROM_COMMAND_AFFECTED_SOP_INSTANCE_UID")

\* A variant of the lookup that takes the first AC result of the id whatever
\* its result code
FirstTsForOp(ac, pc_id) ==
    LET hits == {k \in 1..Len(ac) : ac[k].id = pc_id}
    IN IF hits = {} THEN None
       ELSE ac[CHOOSE k \in hits : \A j \in hits : k <= j].transfer_syntax

\* The transfer syntax accepted for a presentation-context id, or None
AcceptedTsForOp(ac, pc_id) ==
    LET hits == {k \in 1..Len(ac) : ac[k].id = pc_id /\ ac[k].result = 0}
    IN IF hits = {} THEN None
       ELSE ac[CHOOSE k \in hits : \A j \in hits : k <= j].transfer_syntax

\* A variant of process_scene that never generates the UID itself and leaves
\* it to the command builder
NoSharedUid(op, n) == None

\* The UID process_scene generates for the command and the dataset together
SharedUid(op, n) ==
    IF NeedsSharedUid(op) THEN generate_uid(DEFAULT_UID_PREFIX, n + 1) ELSE None
SharedN(op, n) == IF NeedsSharedUid(op) THEN n + 1 ELSE n

\* all_p_data_pdus_bytes.extend(p_data_pdus_for_op): `acc` holds the PDUs so
\* far, the UIDs generated so far and per operation what it produced
DimseEmit(op, acc, g) ==
    [pdus |-> acc.pdus \o g.pdus, n |-> g.n,
     per_op |-> Append(acc.per_op, [op |-> op, skipped |-> FALSE, pdus |-> g.pdus,
                                    order |-> g.order, uids |-> g.n - acc.n])]

\* One iteration of `for dimse_op in current_dimse_sequence`: an operation
\* without an accepted transfer syntax is skipped with `continue`
DimseOp(op, ac, scu, scp, name, acc) ==
    IF AcceptedTsForOp(ac, op.presentation_context_id) = None
    THEN [pdus |-> acc.pdus, n |-> SharedN(op, acc.n),
          per_op |-> Append(acc.per_op, [op |-> op, skipped |-> TRUE, pdus |-> <<>>,
                                         order |-> <<>>,
                                         uids |-> SharedN(op, acc.n) - acc.n])]
    ELSE DimseEmit(op, acc,
            generate_p_data_tf_pdus_for_dimse_operation(
                op, scu, scp, AcceptedTsForOp(ac, op.presentation_context_id),
                SharedUid(op, acc.n), SharedN(op, acc.n), name))

RECURSIVE DimseLoop(_, _, _, _, _, _)
DimseLoop(ops, ac, scu, scp, name, acc) ==
    IF ops = <<>> THEN acc
    ELSE DimseLoop(Tail(ops), ac, scu, scp, name,
                   DimseOp(Head(ops), ac, scu, scp, name, acc))

\* Whether the Link asks for auto mode: no explicit presentation contexts
IsAutoMode(link) == ~link.dicom_config.explicit_presentation_contexts.some

\* The negotiation of a Link that raised before negotiating
NotNegotiated(link) ==
    [err |-> "none", rq |-> <<>>, ac |-> <<>>, cfg |-> link.dicom_config]

\* The log entry of a Link whose iteration raised `err` at `stage`, after the
\* negotiation `neg`: nothing is appended to all_packets
FailedLink(link, err, stage, neg) ==
    [link_id |-> link.link_id, auto |-> IsAutoMode(link), err |-> err, stage |-> stage,
     dicom_config |-> neg.cfg, conn |-> NoConn,
     rq_contexts |-> neg.rq, ac_results |-> neg.ac,
     rq_pdu |-> NoPdu, ac_pdu |-> NoPdu, p_data |-> <<>>, per_op |-> <<>>,
     packets |-> <<>>, uids |-> 0]

\* Steps 5 and 6: the P-DATA-TF PDUs `d` of the DIMSE sequence and the TCP
\* session of the Link
LinkSession(link, n, cd, neg, rq, ac, d) ==
    [link_id |-> link.link_id, auto |-> IsAutoMode(link), err |-> "none",
     stage |-> "done",
     dicom_config |-> neg.cfg, conn |-> cd.conn,
     rq_contexts |-> neg.rq, ac_results |-> neg.ac,
     rq_pdu |-> rq.pdu, ac_pdu |-> ac.pdu, p_data |-> d.pdus, per_op |-> d.per_op,
     packets |-> generate_dicom_session_packet_list(cd.conn, rq.pdu, ac.pdu, d.pdus,
                     DEFAULT_CLIENT_ISN, DEFAULT_SERVER_ISN),
     uids |-> d.n - n]

\* Steps 3 and 4, after the PDUs are built: `rq` and `ac` are the outcomes of
\* building the A-ASSOCIATE-RQ and the A-ASSOCIATE-AC
LinkAssociated(link, n, name, scu, scp, cd, neg, rq, ac) ==
    IF rq.err # "none" THEN FailedLink(link, rq.err, "rq", neg)
    ELSE IF ac.err # "none" THEN FailedLink(link, ac.err, "ac", neg)
    ELSE LinkSession(link, n, cd, neg, rq, ac,
            DimseLoop(CurrentDimseSequence(neg.cfg, neg.rq, neg.ac), neg.ac,
                      scu.props, scp.props, name,
                      [pdus |-> <<>>, n |-> n, per_op |-> <<>>]))

\* assoc_ac_pdu_bytes: b'' unless the negotiation has results
SceneAcPdu(neg, scu, scp) ==
    IF neg.ac # <<>>
    THEN create_scene_associate_ac_pdu(
             StrOr(neg.cfg.calling_ae_title_override, scu.props.ae_title),
             StrOr(neg.cfg.called_ae_title_override, scp.props.ae_title),
             scp.props, DEFAULT_APPLICATION_CONTEXT_NAME, neg.ac)
    ELSE [err |-> "none", pdu |-> NoPdu]

\* Step 3, after the negotiation `neg`
LinkNegotiated(link, n, name, scu, scp, cd, neg) ==
    IF neg.err # "none" THEN FailedLink(link, neg.err, "negotiate", neg)
    ELSE LinkAssociated(link, n, name, scu, scp, cd, neg,
            create_scene_associate_rq_pdu(neg.cfg, scu.props, scp.props),
            SceneAcPdu(neg, scu, scp))

\* Step 2, after the connection details `cd`
LinkConnected(link, n, name, scu, scp, cd) ==
    IF cd.err # "none" THEN FailedLink(link, cd.err, "connection", NotNegotiated(link))
    ELSE LinkNegotiated(link, n, name, scu, scp, cd,
            negotiate_presentation_contexts(link.dicom_config, scu.props, scp.props))

\* Step 1, after the SCU and SCP properties are resolved
LinkResolved(assets, link, n, sport, name, scu, scp) ==
    IF scu.err # "none" THEN FailedLink(link, scu.err, "resolve", NotNegotiated(link))
    ELSE IF scp.err # "none" THEN FailedLink(link, scp.err, "resolve", NotNegotiated(link))
    ELSE LinkConnected(link, n, name, scu, scp,
                       derive_connection_details(assets, link, sport))

\* The properties of the SCP, resolved after those of the SCU
ScpResolved(assets, link, scu) ==
    IF scu.err # "none" THEN scu
    ELSE get_resolved_dicom_properties(assets, scu.cache,
                                       link.dicom_config.scp_asset_id_ref)

\* The body of the try block for one Link: its log entry, with the packets it
\* appends to all_packets; `sport` and `name` are the outcomes of random
process_link(assets, c, link, n, sport, name) ==
    LinkResolved(assets, link, n, sport, name,
        get_resolved_dicom_properties(assets, c, link.dicom_config.scu_asset_id_ref),
        ScpResolved(assets, link,
            get_resolved_dicom_properties(assets, c, link.dicom_config.scu_asset_id_ref)))

\* The except clauses: an AssetNotFoundError is re-raised, every other
\* exception is printed and the loop goes on
\* A variant of the except clauses that lets every exception of a Link end
\* process_scene
ReraisesEveryError(err) == err # "none"
IsReraised(err) == err = "AssetNotFoundError"

\* self._resolved_assets_cache after the iteration of one Link
CacheAfterLink(assets, c, link) ==
    ScpResolved(assets, link,
        get_resolved_dicom_properties(assets, c, link.dicom_config.scu_asset_id_ref)).cache

\* `for asset_in_scene in self.scene.assets: self._get_resolved_dicom_properties(...)`
RECURSIVE ResolveAll(_, _, _)
ResolveAll(assets, i, c) ==
    IF i > Len(assets) THEN [err |-> "none", cache |-> c]
    ELSE LET r == get_resolved_dicom_properties(assets, c, assets[i].asset_id)
         IN IF r.err # "none" THEN [err |-> r.err, cache |-> c]
            ELSE ResolveAll(assets, i + 1, r.cache)

\* The outcomes of random.randint(49152, 65535) the model follows
EphemeralPorts == {EPHEMERAL_PORT_MIN, EPHEMERAL_PORT_MAX}

RECURSIVE UsesSampleName(_)
UsesSampleName(rules) ==
    \E i \in 1..Len(rules) :
        \/ IsStr(rules[i][2], "AUTO_GENERATE_SAMPLE_PATIENT_NAME")
        \/ rules[i][2].k = "dict" /\ UsesSampleName(rules[i][2].l)
        \/ rules[i][2].k = "list"
           /\ \E j \in 1..Len(rules[i][2].l) :
                 rules[i][2].l[j].k = "dict" /\ UsesSampleName(rules[i][2].l[j].l)

\* The random outcomes that matter to a Link
PortChoices(link) == IF link.connection_details.some THEN {EPHEMERAL_PORT_MIN}
                     ELSE EphemeralPorts
NameChoices(link) ==
    IF \E i \in 1..Len(link.dicom_config.dimse_sequence) :
            UsesSampleName(RulesOf(link.dicom_config.dimse_sequence[i]))
    THEN 1..Len(SAMPLE_PATIENT_NAMES) ELSE {1}

(***************************************************************************)
(* The actions: process_scene, step by step.                               *)
(***************************************************************************)
\* DicomSceneProcessor(scene): nothing resolved, nothing processed
Constructed ==
    /\ cache = <<>>
    /\ all_packets = <<>>
    /\ link_idx = 1
    /\ link_log = <<>>
    /\ pc = "start"
    /\ raised = "none"
    /\ uid_n = 0
    /\ tcp = NoCall
    /\ ext = NoRun
    /\ job = NoJob /\ anon = NoAnon

\* process_scene, lines 222-226: resolve every Asset of the Scene
ResolveAssets ==
    /\ pc = "start"
    /\ LET r == ResolveAll(scene.assets, 1, cache)
       IN /\ cache' = r.cache
          /\ pc' = IF r.err = "none" THEN "links" ELSE "raised"
          /\ raised' = r.err
    /\ UNCHANGED <<scene, all_packets, link_idx, link_log, uid_n, tcp, ext, job, anon>>

\* process_scene, lines 228-376: one Link, with its except clauses
ProcessLink ==
    /\ pc = "links"
    /\ link_idx <= Len(scene.links)
    /\ \E sport \in PortChoices(scene.links[link_idx]),
          name \in NameChoices(scene.links[link_idx]) :
        \E r \in {process_link(scene.assets, cache, scene.links[link_idx], uid_n,
                               sport, name)} :
           /\ link_log' = Append(link_log, r)
           /\ scene' = [scene EXCEPT !.links[link_idx].dicom_config = r.dicom_config]
           /\ cache' = CacheAfterLink(scene.assets, cache, scene.links[link_idx])
           /\ uid_n' = uid_n + r.uids
           /\ all_packets' = IF r.err = "none" THEN all_packets \o r.packets
                             ELSE all_packets
           /\ pc' = IF IsReraised(r.err) THEN "raised" ELSE "links"
           /\ raised' = IF IsReraised(r.err) THEN r.err ELSE raised
           /\ link_idx' = IF IsReraised(r.err) THEN link_idx ELSE link_idx + 1
    /\ UNCHANGED <<tcp, ext, job, anon>>

\* process_scene, line 379: return all_packets
Return ==
    /\ pc = "links"
    /\ link_idx > Len(scene.links)
    /\ pc' = "returned"
    /\ UNCHANGED <<scene, cache, all_packets, link_idx, link_log, raised, uid_n, tcp, ext, job, anon>>

Next == ResolveAssets \/ ProcessLink \/ Return

(***************************************************************************)
(* The Scenes the model starts from.                                       *)
(***************************************************************************)
MkNode(node_id, ip, mac, port) ==
    [node_id |-> node_id, ip_address |-> ip, mac_address |-> mac, dicom_port |-> port]

MkSop(uid, role, ts) == [sop_class_uid |-> uid, role |-> role, transfer_syntaxes |-> ts]

\* A CT scanner, the SCU of the Scenes
ASSET_CT ==
    [asset_id |-> "ASSET_CT", asset_template_id_ref |-> None,
     nodes |-> <<MkNode("CT_NIC1", "192.168.1.10", "00:1A:2B:3C:4D:01", NoneInt)>>,
     dicom_properties |-> [DefaultProps EXCEPT
        !.ae_title = "CT_AE", !.implementation_class_uid = "1.2.3.SCU",
        !.manufacturer = "Acme", !.model_name = "Scan1",
        !.software_versions = Some(<<"1.0", "2.0">>),
        !.supported_sop_classes = Some(<<
            MkSop(Verification, "SCU", <<ImplicitVRLE, ExplicitVRLE>>),
            MkSop(CTImageStorage, "SCU", <<ExplicitVRLE>>) >>),
        !.fields_set = PropFields]]

\* A PACS, the SCP of the Scenes
ASSET_PACS ==
    [asset_id |-> "ASSET_PACS", asset_template_id_ref |-> None,
     nodes |-> <<MkNode("PACS_NIC1", "192.168.1.20", "00:1A:2B:3C:4D:02", 11112)>>,
     dicom_properties |-> [DefaultProps EXCEPT
        !.ae_title = "PACS_AE", !.implementation_class_uid = "1.2.3.SCP",
        !.manufacturer = "Store", !.model_name = "Pacs1",
        !.supported_sop_classes = Some(<<
            MkSop(Verification, "SCP", <<ExplicitVRLE>>),
            MkSop(CTImageStorage, "SCP", <<ImplicitVRLE, ExplicitVRLE>>) >>),
        !.fields_set = PropFields]]

\* An Asset that declares no SOP classes at all (supported_sop_classes None)
ASSET_BARE ==
    [asset_id |-> "ASSET_BARE", asset_template_id_ref |-> None,
     nodes |-> <<MkNode("BARE_NIC1", "192.168.1.30", "00:1A:2B:3C:4D:03", NoneInt)>>,
     dicom_properties |-> [DefaultProps EXCEPT
        !.ae_title = "BARE_AE", !.implementation_class_uid = "1.2.3.BARE",
        !.fields_set = {"ae_title", "implementation_class_uid"}]]

SceneAssets == <<ASSET_CT, ASSET_PACS, ASSET_BARE>>

ValidRefs == [scu |-> "ASSET_CT", scp |-> "ASSET_PACS", sa |-> "ASSET_CT",
              sn |-> "CT_NIC1", da |-> "ASSET_PACS", dn |-> "PACS_NIC1"]

ExplicitConn ==
    Some([source_mac |-> "00:00:00:AA:BB:CC", destination_mac |-> "00:00:00:DD:EE:FF",
          source_ip |-> "10.0.0.1", destination_ip |-> "10.0.0.2",
          source_port |-> 50000, destination_port |-> 11113])

MkContext(id, abstract_syntax, ts) ==
    [id |-> id, abstract_syntax |-> abstract_syntax, transfer_syntaxes |-> ts]

MkCommand(message_id, sop_class, sop_instance) ==
    [MessageID |-> message_id, Priority |-> NoneInt, AffectedSOPClassUID |-> sop_class,
     AffectedSOPInstanceUID |-> sop_instance, extra_fields |-> <<>>]

EchoOp(pc_id) ==
    [operation_name |-> "Echo", message_type |-> "C-ECHO-RQ",
     presentation_context_id |-> pc_id,
     command_set |-> MkCommand(pc_id, Verification, None),
     dataset_content_rules |-> NoneOpt]

StoreOp(pc_id, sop_instance, rules) ==
    [operation_name |-> "Store", message_type |-> "C-STORE-RQ",
     presentation_context_id |-> pc_id,
     command_set |-> MkCommand(7, CTImageStorage, sop_instance),
     dataset_content_rules |-> rules]

MkLink(refs, cd, pcs, dimse) ==
    [link_id |-> "LINK", source_asset_id_ref |-> refs.sa, source_node_id_ref |-> refs.sn,
     destination_asset_id_ref |-> refs.da, destination_node_id_ref |-> refs.dn,
     connection_details |-> cd,
     dicom_config |-> [scu_asset_id_ref |-> refs.scu, scp_asset_id_ref |-> refs.scp,
                       calling_ae_title_override |-> None,
                       called_ae_title_override |-> None,
                       explicit_presentation_contexts |-> pcs,
                       dimse_sequence |-> dimse]]

\* link_id values are those of the position in scene.links
NumberLinks(ls) == [i \in 1..Len(ls) |-> [ls[i] EXCEPT !.link_id = "LINK_" \o ToString(i)]]

\* Reference variants of a Link: which of its ids exist in the Scene
GhostRefs ==
    { [ValidRefs EXCEPT !.scp = "GHOST", !.da = "GHOST", !.dn = "GHOST_NIC"],
      [ValidRefs EXCEPT !.scu = "GHOST"],
      [ValidRefs EXCEPT !.sa = "GHOST"],
      [ValidRefs EXCEPT !.da = "GHOST"],
      [ValidRefs EXCEPT !.sn = "GHOST_NIC"],
      [ValidRefs EXCEPT !.dn = "GHOST_NIC"],
      [ValidRefs EXCEPT !.sn = "GHOST_NIC", !.da = "GHOST"] }

EchoContexts == Some(<<MkContext(1, Verification, <<ImplicitVRLE>>)>>)

\* Association variants of a Link: contexts (None is auto mode) and operations
Protocols ==
    { [pcs |-> EchoContexts, dimse |-> <<EchoOp(1)>>],
      [pcs |-> NoneOpt, dimse |-> <<>>],
      [pcs |-> Some(<<MkContext(1, Verification, <<ImplicitVRLE>>),
                      MkContext(3, CTImageStorage, <<>>)>>),
       dimse |-> <<StoreOp(3, "1.2.3.4.5", Some(<<<<"PatientID", VS("P1")>>>>)),
                   EchoOp(1), EchoOp(5)>>],
      [pcs |-> Some(<<MkContext(2, Verification, <<ImplicitVRLE>>)>>),
       dimse |-> <<EchoOp(2)>>],
      [pcs |-> Some(<<>>), dimse |-> <<EchoOp(1)>>] }

LinkVariants ==
    { MkLink(ValidRefs, cd, p.pcs, p.dimse) : cd \in {NoneOpt, ExplicitConn}, p \in Protocols }
    \cup { MkLink([ValidRefs EXCEPT !.scu = "ASSET_BARE"], NoneOpt, p.pcs, p.dimse) :
              p \in {q \in Protocols : q.dimse = <<>> \/ q.pcs = EchoContexts} }
    \cup { MkLink(refs, NoneOpt, EchoContexts, <<EchoOp(1)>>) : refs \in GhostRefs }
    \cup { MkLink(refs, ExplicitConn, EchoContexts, <<EchoOp(1)>>) :
              refs \in {g \in GhostRefs : g.scu = "ASSET_CT" /\ g.scp = "ASSET_PACS"
                                          /\ g.dn = "PACS_NIC1"} }

\* Scenes of up to MaxLinks Links over the three Assets
Init ==
    /\ scene \in { [assets |-> SceneAssets, links |-> NumberLinks(ls)] :
                      ls \in {l \in SeqsUpTo(LinkVariants, MaxLinks) : l # <<>>} }
    /\ Constructed

Spec == Init /\ [][Next]_vars

(***************************************************************************)
(* Scenes of one Link for the negotiation: explicit contexts of every      *)
(* shape, and auto mode over the SOP classes of the two Assets.            *)
(***************************************************************************)
ContextIds == {1, 2, 3}
ContextTs == {<<>>, <<ImplicitVRLE>>, <<ExplicitVRLE, ImplicitVRLE>>}
ContextSet == { MkContext(id, as, ts) :
                   id \in ContextIds, as \in {Verification, CTImageStorage},
                   ts \in ContextTs }

ScuDefs == { MkSop(Verification, "SCU", <<ImplicitVRLE, ExplicitVRLE>>),
             MkSop(CTImageStorage, "SCU", <<ExplicitVRLE>>),
             MkSop(MRImageStorage, "scu", <<JPEGBaseline>>),
             MkSop(Verification, "SCP", <<ImplicitVRLE>>),
             MkSop(Verification, "BOTH", <<ExplicitVRLE>>) }

ScpDefs == { MkSop(Verification, "SCP", <<ExplicitVRLE>>),
             MkSop(CTImageStorage, "SCP", <<ImplicitVRLE, ExplicitVRLE>>),
             MkSop(MRImageStorage, "SCP", <<ImplicitVRLE>>),
             MkSop(CTImageStorage, "SCU", <<ExplicitVRLE>>),
             MkSop(Verification, "both", <<ExplicitVRLE, ImplicitVRLE>>) }

WithSops(asset, sops) ==
    [asset EXCEPT !.dicom_properties.supported_sop_classes = Some(sops)]

NegScenes ==
    { [assets |-> SceneAssets,
       links |-> NumberLinks(<<MkLink(ValidRefs, ExplicitConn, Some(pcs), <<>>)>>)] :
         pcs \in SeqsUpTo(ContextSet, MaxContexts) }
    \cup
    { [assets |-> <<WithSops(ASSET_CT, scu_sops), WithSops(ASSET_PACS, scp_sops)>>,
       links |-> NumberLinks(<<MkLink(ValidRefs, ExplicitConn, NoneOpt, <<>>)>>)] :
         scu_sops \in SeqsUpTo(ScuDefs, MaxSops), scp_sops \in SeqsUpTo(ScpDefs, MaxSops) }

InitNeg == scene \in NegScenes /\ Constructed

SpecNeg == InitNeg /\ [][Next]_vars

(***************************************************************************)
(* Scenes of one Link for the DIMSE sequence: C-STORE operations over the  *)
(* rules for SOPInstanceUID, and C-ECHO operations on accepted, rejected   *)
(* and unknown presentation contexts.                                      *)
(***************************************************************************)
DataContexts == Some(<<MkContext(1, CTImageStorage, <<ExplicitVRLE>>),
                       MkContext(3, Verification, <<>>)>>)

CommandUids == {None, "AUTO_GENERATE_UID_INSTANCE", "1.2.3.4.5"}

SopInstanceRules ==
    { "AUTO_FROM_COMMAND_AFFECTED_SOP_INSTANCE_UID", "AUTO_GENERATE_UID_INSTANCE",
      "AUTO_GENERATE_UID", "AUTO_GENERATE_UID_STUDY", "AUTO_FROM_ASSET_SCU_AE_TITLE",
      "9.9.9" }

StoreRules ==
    { Some(<<<<"PatientID", VS("P1")>>, <<"SOPInstanceUID", VS(rule)>>>>) :
         rule \in SopInstanceRules }
    \cup { NoneOpt, Some(<<<<"PatientID", VS("P1")>>>>) }

OpSet == { StoreOp(1, uid, rules) : uid \in CommandUids, rules \in StoreRules }
         \cup { EchoOp(id) : id \in {1, 3, 5} }

DataScenes ==
    { [assets |-> SceneAssets,
       links |-> NumberLinks(<<MkLink(ValidRefs, ExplicitConn, DataContexts, ops)>>)] :
         ops \in SeqsUpTo(OpSet, MaxOps) }

InitData == scene \in DataScenes /\ Constructed

SpecData == InitData /\ [][Next]_vars

(***************************************************************************)
(* Scenes whose SCU Asset references an Asset Template: the template is    *)
(* loaded, missing or invalid, and the Asset sets some of its fields.      *)
(***************************************************************************)
TemplateRefs == {None, "", "TEMPLATE_GENERIC_CT_V1", "TEMPLATE_BAD_JSON",
                 "TEMPLATE_NO_KEY", "TEMPLATE_BAD_PROPS", "TEMPLATE_ABSENT"}

\* The values an Asset gives to the fields it sets: those of ASSET_CT, or an
\* explicit None for the manufacturer and a list of one SOP class
GivenValues ==
    {ASSET_CT.dicom_properties,
     [ASSET_CT.dicom_properties EXCEPT
        !.manufacturer = None,
        !.supported_sop_classes =
            Some(<<MkSop(Verification, "SCU", <<ExplicitVRLE>>)>>)]}

OverridableFields == {"ae_title", "manufacturer", "software_versions",
                      "supported_sop_classes"}

\* AssetDicomProperties(**data): the fields of `fields` are set to `values`
\* and every other field keeps its default
PropsWith(values, fields) ==
    [f \in PropFields \cup {"fields_set"} |->
        IF f = "fields_set" THEN fields
        ELSE IF f \in fields THEN values[f] ELSE DefaultProps[f]]

TemplatedAssets ==
    { [ASSET_CT EXCEPT !.asset_template_id_ref = ref,
                       !.dicom_properties = PropsWith(values, fields)] :
         ref \in TemplateRefs, values \in GivenValues,
         fields \in SUBSET OverridableFields }

TemplateScenes ==
    { [assets |-> IF first THEN <<ct, ASSET_PACS>> ELSE <<ASSET_PACS, ct>>,
       links |-> NumberLinks(<<MkLink(ValidRefs, NoneOpt, pcs, <<>>)>>)] :
         ct \in TemplatedAssets, first \in BOOLEAN, pcs \in {NoneOpt, EchoContexts} }

InitTemplate == scene \in TemplateScenes /\ Constructed

SpecTemplate == InitTemplate /\ [][Next]_vars

(***************************************************************************)
(* Scenes of one Link with one C-STORE operation whose dataset rules are   *)
(* given in every order: up to MaxRules rules of distinct keywords, each   *)
(* a Study, Series or Instance UID rule, a generic UID rule or a value.    *)
(***************************************************************************)
RuleKeywords == {"PatientID", "SOPInstanceUID", "SeriesInstanceUID", "StudyInstanceUID"}
RuleValues == {"AUTO_GENERATE_UID_STUDY", "AUTO_GENERATE_UID_SERIES",
               "AUTO_GENERATE_UID_INSTANCE", "AUTO_GENERATE_UID", "P1"}

\* dict items: the keywords of one mapping are distinct
RuleMappings ==
    { rules \in SeqsUpTo(RuleKeywords \X {VS(v) : v \in RuleValues}, MaxRules) :
         \A a, b \in 1..Len(rules) : a # b => rules[a][1] # rules[b][1] }

OrderScenes ==
    { [assets |-> SceneAssets,
       links |-> NumberLinks(<<MkLink(ValidRefs, ExplicitConn, DataContexts,
                                      <<StoreOp(1, "1.2.3.4.5", Some(rules))>>)>>)] :
         rules \in RuleMappings }

InitOrder == scene \in OrderScenes /\ Constructed

SpecOrder == InitOrder /\ [][Next]_vars

(***************************************************************************)
(* Scenes of one Link without explicit connection details, between the CT  *)
(* and the PACS in either direction and with either of them as the SCP,    *)
(* over the configurations of the DICOM port of the two nodes.             *)
(***************************************************************************)
NodePorts == {NoneInt, 11112, 4242}

WithPort(asset, port) == [asset EXCEPT !.nodes[1].dicom_port = port]

ReversedRefs == [scu |-> "ASSET_PACS", scp |-> "ASSET_CT", sa |-> "ASSET_PACS",
                 sn |-> "PACS_NIC1", da |-> "ASSET_CT", dn |-> "CT_NIC1"]

\* the source and destination of the Link, and which of the two is the SCP
ConnRefs ==
    { ValidRefs, ReversedRefs,
      [ValidRefs EXCEPT !.scu = "ASSET_PACS", !.scp = "ASSET_CT"],
      [ReversedRefs EXCEPT !.scu = "ASSET_CT", !.scp = "ASSET_PACS"] }

ConnScenes ==
    { [assets |-> <<WithPort(ASSET_CT, ct_port), WithPort(ASSET_PACS, pacs_port)>>,
       links |-> NumberLinks(<<MkLink(refs, NoneOpt, EchoContexts, <<EchoOp(1)>>)>>)] :
         ct_port \in NodePorts, pacs_port \in NodePorts, refs \in ConnRefs }

InitConn == scene \in ConnScenes /\ Constructed

SpecConn == InitConn /\ [][Next]_vars

(***************************************************************************)
(* process_scene called a second time on the Scene it has processed.  The  *)
(* Scene is the object the first call has left, the packet list is a new   *)
(* one, and link_log goes on with the Link iterations of the second call.  *)
(***************************************************************************)
ProcessAgain ==
    /\ pc = "returned"
    /\ Len(link_log) = Len(scene.links)
    /\ pc' = "start"
    /\ link_idx' = 1
    /\ all_packets' = <<>>
    /\ UNCHANGED <<scene, cache, link_log, raised, uid_n, tcp, ext, job, anon>>

NextTwice == ResolveAssets \/ ProcessLink \/ Return \/ ProcessAgain

SpecTwice == InitNeg /\ [][NextTwice]_vars

(***************************************************************************)
(* generate_dicom_session_packet_list called on its own, as                *)
(* generate_dicom_pcap calls it: any PDU bytes, any initial sequence       *)
(* numbers.                                                                *)
(***************************************************************************)
\* A byte string of a given length
RawBytes(length) == [NoPdu EXCEPT !.len = length]

ClientIsns == {DEFAULT_CLIENT_ISN, 0}
ServerIsns == {DEFAULT_SERVER_ISN, DEFAULT_CLIENT_ISN}
AssociateLens == {0, 50, 120}
PDataLens == {50, 120}

SessionCalls ==
    { [NoCall EXCEPT !.network_params = ExplicitConn.v,
                     !.associate_rq_pdu_bytes = RawBytes(rq),
                     !.associate_ac_pdu_bytes = RawBytes(ac),
                     !.p_data_tf_pdu_list = [i \in 1..Len(ls) |-> RawBytes(ls[i])],
                     !.client_isn = c, !.server_isn = sv] :
         rq \in AssociateLens, ac \in AssociateLens,
         ls \in SeqsUpTo(PDataLens, MaxPayloads),
         c \in ClientIsns, sv \in ServerIsns }

\* generate_dicom_session_packet_list(**packet_list_args)
SynthesizeSession ==
    /\ pc = "tcp_call"
    /\ tcp' = [tcp EXCEPT !.packets =
                  generate_dicom_session_packet_list(
                      tcp.network_params, tcp.associate_rq_pdu_bytes,
                      tcp.associate_ac_pdu_bytes, tcp.p_data_tf_pdu_list,
                      tcp.client_isn, tcp.server_isn)]
    /\ pc' = "tcp_returned"
    /\ UNCHANGED <<scene, cache, all_packets, link_idx, link_log, raised, uid_n, ext, job, anon>>

InitTcp ==
    /\ scene = [assets |-> <<>>, links |-> <<>>]
    /\ cache = <<>> /\ all_packets = <<>> /\ link_idx = 1 /\ link_log = <<>>
    /\ raised = "none" /\ uid_n = 0
    /\ pc = "tcp_call"
    /\ tcp \in SessionCalls
    /\ ext = NoRun
    /\ job = NoJob /\ anon = NoAnon

NextTcp == SynthesizeSession

SpecTcp == InitTcp /\ [][NextTcp]_vars

(***************************************************************************)
(* The traffic extractor (dicom_pcap_extractor.py) on the bytes of one TCP *)
(* stream.  A byte stream is kept as the sequence of the PDUs it encodes   *)
(* and the number of its bytes that are there; the payload of a PDV is     *)
(* kept as the sequence of the data elements it encodes, each with the VR  *)
(* mode it is written in.                                                  *)
(***************************************************************************)
\* The bytes of a dataset written with transfer syntax `ts`
EncodedDataset(ds, ts) ==
    [i \in 1..Len(ds) |->
        [tag |-> ds[i][1], value |-> ds[i][2], implicit_vr |-> (ts = ImplicitVRLE)]]

\* pdv_data_field[1:], the bytes after the message control header
actual_data(pdv) == EncodedDataset(pdv.dataset, pdv.transfer_syntax)

\* A PDV item: length (4), context id (1), message control header (1), data
PdvLen(pdv) == 6 + DatasetLen(pdv.dataset)

\* A P-DATA-TF PDU of several PDVs
PDataPdu(pdvs) ==
    [NoPdu EXCEPT !.pdu_type = 4, !.pdvs = pdvs, !.len = 6 + SumLen(pdvs, PdvLen)]

\* message_control_header & 0x02
is_command(message_control_header) == (message_control_header \div 2) % 2 = 1
\* message_control_header & 0x01
is_last_fragment(message_control_header) == message_control_header % 2 = 1

\* str.rstrip() / str.strip() on spaces
RECURSIVE rstrip(_)
rstrip(str) ==
    IF Len(str) > 0 /\ SubSeq(str, Len(str), Len(str)) = " "
    THEN rstrip(SubSeq(str, 1, Len(str) - 1)) ELSE str
RECURSIVE strip(_)
strip(str) ==
    IF Len(str) > 0 /\ SubSeq(str, 1, 1) = " "
    THEN strip(SubSeq(str, 2, Len(str))) ELSE rstrip(str)

\* pydicom guesses the VR mode of a byte string from its first element and
\* reads every element in that mode: bytes written in one mode are read back,
\* bytes that change mode may raise or may be read up to the change
WellFormed(bytes) == \A i \in 1..Len(bytes) : bytes[i].implicit_vr = bytes[1].implicit_vr
DcmreadOutcomes(bytes) == IF WellFormed(bytes) THEN {"parsed"} ELSE {"parsed", "raised"}

RECURSIVE ReadableElements(_, _)
ReadableElements(bytes, implicit_vr) ==
    IF bytes = <<>> \/ Head(bytes).implicit_vr # implicit_vr THEN <<>>
    ELSE <<Head(bytes)>> \o ReadableElements(Tail(bytes), implicit_vr)

\* pydicom.dcmread(io.BytesIO(bytes), force=True) when it returns
dcmread(bytes) == ReadableElements(bytes, bytes[1].implicit_vr)

\* The value pydicom hands out for an element it read: the padding of a string
\* is gone, an empty value is "", a list of one string is that string
ReadValue(v) ==
    CASE v.k = "s" -> VS(rstrip(v.s))
      [] v.k = "none" -> VS("")
      [] v.k = "strs" /\ Len(v.l) = 0 -> VS("")
      [] v.k = "strs" /\ Len(v.l) = 1 -> VS(rstrip(v.l[1]))
      [] OTHER -> v

\* Dataset.get(keyword): the value of the element, None without it; of two
\* elements with one tag the later one stays in the Dataset
DatasetGet(elements, keyword) ==
    IF \E i \in 1..Len(elements) : elements[i].tag = keyword
    THEN ReadValue(elements[CHOOSE i \in 1..Len(elements) :
                               /\ elements[i].tag = keyword
                               /\ \A j \in (i + 1)..Len(elements) :
                                     elements[j].tag # keyword].value)
    ELSE VNone

\* found_metadata = {}: .get(key) of a missing key is None
NoMetadata ==
    [CallingAE |-> VNone, CalledAE |-> VNone, ImplementationClassUID |-> VNone,
     ImplementationVersionName |-> VNone, Manufacturer |-> VNone,
     ManufacturerModelName |-> VNone, DeviceSerialNumber |-> VNone,
     SoftwareVersions |-> VNone, TransducerData |-> VNone, StationName |-> VNone]

\* `if key not in found_metadata or found_metadata[key] is None`
KeepFirst(old, new) == IF old = VNone THEN new ELSE old

\* lines 340-353: the device tags of a parsed dataset
ExtractDesiredTags(found_metadata, p_data_ds) ==
    [found_metadata EXCEPT
        !.Manufacturer = KeepFirst(@, DatasetGet(p_data_ds, "Manufacturer")),
        !.ManufacturerModelName = KeepFirst(@, DatasetGet(p_data_ds, "ManufacturerModelName")),
        !.DeviceSerialNumber = KeepFirst(@, DatasetGet(p_data_ds, "DeviceSerialNumber")),
        !.SoftwareVersions = KeepFirst(@, DatasetGet(p_data_ds, "SoftwareVersions")),
        !.TransducerData = KeepFirst(@, DatasetGet(p_data_ds, "TransducerData")),
        !.StationName = KeepFirst(@, DatasetGet(p_data_ds, "StationName"))]

\* p_data_fragments: defaultdict(bytes)
Fragments(p_data_fragments, id) ==
    IF id \in DOMAIN p_data_fragments THEN p_data_fragments[id] ELSE <<>>
PutFragments(p_data_fragments, id, bytes) ==
    [k \in DOMAIN p_data_fragments \cup {id} |->
        IF k = id THEN bytes ELSE p_data_fragments[k]]
DelFragments(p_data_fragments, id) ==
    [k \in DOMAIN p_data_fragments \ {id} |-> p_data_fragments[k]]

\* The locals of extract_relevant_metadata before its loop
StreamRun(stream, avail, key) ==
    [stream |-> stream, avail |-> avail, key |-> key,
     pos |-> 0, pdu_idx |-> 1, pdv_idx |-> 0, pdv_pos |-> 0,
     found_metadata |-> NoMetadata, p_data_fragments |-> <<>>,
     parsed_p_data_success |-> FALSE, parse_log |-> <<>>, result |-> NoneOpt]

\* read_pdu: None when fewer than 6 bytes are left or the declared length
\* exceeds the bytes that are there
read_pdu(e) ==
    IF e.avail - e.pos < 6 THEN NoneOpt
    ELSE IF e.pos + e.stream[e.pdu_idx].len > e.avail THEN NoneOpt
    ELSE Some(e.stream[e.pdu_idx])

\* The loop of the stream moves to the PDU after `pdu`
AfterPdu(e, pdu) ==
    [e EXCEPT !.pos = @ + pdu.len, !.pdu_idx = @ + 1, !.pdv_idx = 0, !.pdv_pos = 0]

\* lines 192-238: "CallingAETitle" and "CalledAETitle" are no keywords of a
\* pydicom Dataset, .get returns its default "": the titles are set to ""
\* unless dcmread raises on the bytes of the PDU
AssociateRq(e, raises) ==
    IF raises THEN e
    ELSE [e EXCEPT !.found_metadata.CallingAE = VS(strip("")),
                   !.found_metadata.CalledAE = VS(strip(""))]

\* lines 245-293: `if calling_ae_ac:` is false for ""
AssociateAc(e, raises) == e

\* lines 323-366: one PDV whose header and data are there.  `outcome` is
\* "none" without a parse attempt, else what dcmread did.
ProcessPdv(e, pdv, fragment_data, outcome) ==
    [e EXCEPT
        !.p_data_fragments =
            IF outcome = "none"
            THEN PutFragments(@, pdv.presentation_context_id, fragment_data)
            ELSE DelFragments(@, pdv.presentation_context_id),
        !.parsed_p_data_success = @ \/ (outcome = "parsed"),
        !.found_metadata =
            IF outcome = "parsed" THEN ExtractDesiredTags(@, dcmread(fragment_data))
            ELSE @,
        !.parse_log = Append(@,
            [pdu_idx |-> e.pdu_idx, pdv_idx |-> e.pdv_idx,
             presentation_context_id |-> pdv.presentation_context_id,
             mch |-> pdv.mch, actual_data |-> actual_data(pdv),
             attempted |-> (outcome # "none"),
             fragment_data |-> fragment_data, outcome |-> outcome,
             buffer_after |-> IF outcome = "none" THEN fragment_data ELSE <<>>])]

\* `if is_last_fragment: ... if fragment_data:`
PdvOutcomes(pdv, fragment_data) ==
    IF is_last_fragment(pdv.mch) /\ fragment_data # <<>>
    THEN DcmreadOutcomes(fragment_data) ELSE {"none"}

\* The PDV loop moves on: to the next PDV while pdv_stream.tell() < pdu_length
AfterPdv(e, pdu, pdv) ==
    IF e.pdv_pos + PdvLen(pdv) < pdu.len - 6
    THEN [e EXCEPT !.pdv_idx = @ + 1, !.pdv_pos = @ + PdvLen(pdv)]
    ELSE AfterPdu(e, pdu)

\* lines 401-465: the record of the stream, or None
Truthy(v) == v # VNone /\ v # VS("")
\* A variant that returns a record for every stream
RecordAlways(e) == TRUE
final_check_condition(e) ==
    \/ Truthy(e.found_metadata.CallingAE) /\ Truthy(e.found_metadata.CalledAE)
    \/ e.parsed_p_data_success
\* current_context_results stays empty: negotiation_successful is None
DicomExtractedMetadata(found_metadata) ==
    [CallingAE |-> found_metadata.CallingAE, CalledAE |-> found_metadata.CalledAE,
     ImplementationClassUID |-> found_metadata.ImplementationClassUID,
     ImplementationVersionName |-> found_metadata.ImplementationVersionName,
     negotiation_successful |-> VNone,
     Manufacturer |-> found_metadata.Manufacturer,
     ManufacturerModelName |-> found_metadata.ManufacturerModelName,
     DeviceSerialNumber |-> found_metadata.DeviceSerialNumber,
     SoftwareVersions |-> found_metadata.SoftwareVersions,
     TransducerData |-> found_metadata.TransducerData,
     StationName |-> found_metadata.StationName]
extract_relevant_metadata(e) ==
    IF final_check_condition(e) THEN Some(DicomExtractedMetadata(e.found_metadata))
    ELSE NoneOpt

\* One iteration of `while stream.tell() < initial_buffer_len` up to the PDV
\* loop: read_pdu returned a PDU
ReadPdu ==
    /\ pc = "stream_loop"
    /\ ext.pos < ext.avail
    /\ read_pdu(ext).some
    /\ \E pdu \in {read_pdu(ext).v}, raises \in BOOLEAN :
         ext' = CASE pdu.pdu_type = 1 -> AfterPdu(AssociateRq(ext, raises), pdu)
                  [] pdu.pdu_type = 2 -> AfterPdu(AssociateAc(ext, raises), pdu)
                  [] pdu.pdu_type = 4 /\ pdu.len > 6 -> [ext EXCEPT !.pdv_idx = 1]
                  [] OTHER -> AfterPdu(ext, pdu)
    /\ pc' = IF ext'.pdv_idx = 0 THEN "stream_loop" ELSE "pdv_loop"
    /\ UNCHANGED <<scene, cache, all_packets, link_idx, link_log, raised, uid_n, tcp, job, anon>>

\* One iteration of `while pdv_stream.tell() < pdu_length`: a PDV whose header
\* or data is cut by the end of the PDU ends the loop
ReadPdv ==
    /\ pc = "pdv_loop"
    /\ \E pdu \in {ext.stream[ext.pdu_idx]} :
       \E pdv \in {pdu.pdvs[ext.pdv_idx]} :
          IF ext.pdv_pos + PdvLen(pdv) > pdu.len - 6
          THEN ext' = AfterPdu(ext, pdu)
          ELSE \E fragment_data \in {Fragments(ext.p_data_fragments,
                                               pdv.presentation_context_id)
                                     \o actual_data(pdv)} :
               \E outcome \in PdvOutcomes(pdv, fragment_data) :
                  ext' = AfterPdv(ProcessPdv(ext, pdv, fragment_data, outcome), pdu, pdv)
    /\ pc' = IF ext'.pdv_idx = 0 THEN "stream_loop" ELSE "pdv_loop"
    /\ UNCHANGED <<scene, cache, all_packets, link_idx, link_log, raised, uid_n, tcp, job, anon>>

\* The loop ends at the end of the bytes or when read_pdu returns None, and
\* extract_relevant_metadata returns
FinishStream ==
    /\ pc = "stream_loop"
    /\ ext.pos >= ext.avail \/ ~read_pdu(ext).some
    /\ ext' = [ext EXCEPT !.result = extract_relevant_metadata(ext)]
    /\ pc' = "stream_returned"
    /\ UNCHANGED <<scene, cache, all_packets, link_idx, link_log, raised, uid_n, tcp, job, anon>>

NextStream == ReadPdu \/ ReadPdv \/ FinishStream

(***************************************************************************)
(* Byte streams for the stream extraction: an optional A-ASSOCIATE-RQ, up  *)
(* to MaxPdvs PDVs in P-DATA-TF PDUs of one or two PDVs, an optional       *)
(* A-RELEASE-RQ; all of it, or cut inside its last PDU.                    *)
(***************************************************************************)
PdvContextIds == {1, 3}
MessageControlHeaders == {0, 1, 2, 3}
PdvPayloads == {<<>>, <<<<"Manufacturer", VS("Acme")>>>>}

\* A command fragment is written in Implicit VR, a data fragment in Explicit VR
StreamPdvs ==
    { [presentation_context_id |-> id, mch |-> m,
       transfer_syntax |-> IF m % 2 = 1 THEN ImplicitVRLE ELSE ExplicitVRLE,
       dataset |-> ds] :
         id \in PdvContextIds, m \in MessageControlHeaders, ds \in PdvPayloads }

\* The PDU sequences that carry the PDVs `pdvs` in order
RECURSIVE Groupings(_)
Groupings(pdvs) ==
    IF pdvs = <<>> THEN {<<>>}
    ELSE { <<PDataPdu(<<pdvs[1]>>)>> \o rest : rest \in Groupings(Tail(pdvs)) }
         \cup (IF Len(pdvs) < 2 THEN {}
               ELSE { <<PDataPdu(<<pdvs[1], pdvs[2]>>)>> \o rest :
                         rest \in Groupings(Tail(Tail(pdvs))) })

\* A PDU whose length field ends 2 bytes before its last PDV does
ShortPdu(pdu) == [pdu EXCEPT !.len = @ - 2]

SampleRq ==
    create_associate_rq_pdu("SCU1", "SCP1", DEFAULT_APPLICATION_CONTEXT_NAME,
        <<MkContext(1, CTImageStorage, <<ImplicitVRLE>>)>>, "1.2.3.SCU",
        DEFAULT_IMPLEMENTATION_VERSION_NAME).pdu
SampleReleaseRq == [NoPdu EXCEPT !.pdu_type = 5, !.len = 10]

PDataStreams ==
    UNION { Groupings(pdvs) : pdvs \in SeqsUpTo(StreamPdvs, MaxPdvs) }
    \cup { <<ShortPdu(PDataPdu(<<a, b>>))>> :
              a \in {p \in StreamPdvs : p.mch = 3 /\ p.presentation_context_id = 1},
              b \in {p \in StreamPdvs : p.mch = 2 /\ p.presentation_context_id = 1} }

ByteStreams ==
    { head \o body \o tail :
         head \in {<<>>, <<SampleRq>>}, body \in PDataStreams,
         tail \in {<<>>, <<SampleReleaseRq>>} }

StreamLen(stream) == SumLen(stream, LAMBDA p : p.len)

\* Where the bytes end: after the last PDU, or inside it (in its header, in
\* its last byte, after its first PDV)
Truncations(stream) ==
    IF stream = <<>> THEN {0}
    ELSE LET last == stream[Len(stream)]
             start == StreamLen(stream) - last.len
         IN {StreamLen(stream), start + 3, StreamLen(stream) - 1}
            \cup (IF Len(last.pdvs) = 2 THEN {start + 6 + PdvLen(last.pdvs[1])} ELSE {})

StreamKey == <<"10.0.0.1", "10.0.0.2", 11113>>

InitStream ==
    /\ scene = [assets |-> <<>>, links |-> <<>>]
    /\ cache = <<>> /\ all_packets = <<>> /\ link_idx = 1 /\ link_log = <<>>
    /\ raised = "none" /\ uid_n = 0 /\ tcp = NoCall
    /\ job = NoJob /\ anon = NoAnon
    /\ pc = "stream_loop"
    /\ \E stream \in ByteStreams : \E avail \in Truncations(stream) :
          ext = StreamRun(stream, avail, StreamKey)

SpecStream == InitStream /\ [][NextStream]_vars

(***************************************************************************)
(* The traffic extractor on a capture (extract_dicom_metadata_from_pcap):  *)
(* the raw-offset scan of the packets, the TCP sessions, the stream        *)
(* extraction of each session and the aggregation by IP pair.              *)
(***************************************************************************)
\* rdpcap: the packets of the capture file from packet `start` + 1 on, each
\* with its capture time
rdpcap(packets, start) ==
    [i \in 1..(IF Len(packets) > start THEN Len(packets) - start ELSE 0) |->
        packets[i + start] @@ [time |-> i]]

\* The AE title field of an A-ASSOCIATE PDU: 16 bytes, padded with spaces
RECURSIVE AeTitleField(_)
AeTitleField(title) ==
    IF Len(title) >= 16 THEN SubSeq(title, 1, 16) ELSE AeTitleField(title \o " ")

\* pkt.haslayer(Raw), `if pkt[TCP].payload`
HasRaw(pkt) == pkt.payload.len > 0

\* ae_titles_from_summary: defaultdict of {"CallingAE": None, "CalledAE": None}
NoSummary == [CallingAE |-> VNone, CalledAE |-> VNone]
SummaryGet(ae_titles_from_summary, key) ==
    IF key \in DOMAIN ae_titles_from_summary THEN ae_titles_from_summary[key]
    ELSE NoSummary

\* lines 560-565: a title is stored when it is not empty
StoreTitles(ae_titles_from_summary, primary_key, calling_ae_found, called_ae_found) ==
    [k \in DOMAIN ae_titles_from_summary \cup {primary_key} |->
        IF k # primary_key THEN ae_titles_from_summary[k]
        ELSE [CallingAE |-> IF calling_ae_found # "" THEN VS(calling_ae_found)
                            ELSE SummaryGet(ae_titles_from_summary, k).CallingAE,
              CalledAE |-> IF called_ae_found # "" THEN VS(called_ae_found)
                           ELSE SummaryGet(ae_titles_from_summary, k).CalledAE]]

\* lines 553-556: the key of an RQ packet has its destination port, the key
\* of an AC packet its source port
primary_key(pkt) ==
    IF pkt.payload.pdu_type = 1 THEN <<pkt.src_ip, pkt.dst_ip, pkt.dport>>
    ELSE <<pkt.src_ip, pkt.dst_ip, pkt.sport>>

\* lines 523-568 for one packet: payload[10:26] is the called title,
\* payload[26:42] the calling title
ScanPacket(ae_titles_from_summary, pkt) ==
    IF HasRaw(pkt) /\ pkt.payload.len >= 42 /\ pkt.payload.pdu_type \in {1, 2}
       /\ (strip(AeTitleField(pkt.payload.called_ae_title)) # ""
           \/ strip(AeTitleField(pkt.payload.calling_ae_title)) # "")
    THEN StoreTitles(ae_titles_from_summary, primary_key(pkt),
                     strip(AeTitleField(pkt.payload.calling_ae_title)),
                     strip(AeTitleField(pkt.payload.called_ae_title)))
    ELSE ae_titles_from_summary

RECURSIVE RawPayloadScan(_, _)
RawPayloadScan(packets, ae_titles_from_summary) ==
    IF packets = <<>> THEN ae_titles_from_summary
    ELSE RawPayloadScan(Tail(packets), ScanPacket(ae_titles_from_summary, Head(packets)))

\* packets.sessions(): Scapy groups the packets by "TCP src:sport > dst:dport",
\* one session per direction, in the order the sessions first appear
SessionKey(pkt) == <<pkt.src_ip, pkt.sport, pkt.dst_ip, pkt.dport>>
RECURSIVE SessionKeys(_)
SessionKeys(packets) ==
    IF packets = <<>> THEN <<>>
    ELSE <<SessionKey(Head(packets))>>
         \o SelectSeq(SessionKeys(Tail(packets)),
                      LAMBDA k : k # SessionKey(Head(packets)))
sessions(packets) ==
    [n \in 1..Len(SessionKeys(packets)) |->
        SelectSeq(packets, LAMBDA p : SessionKey(p) = SessionKeys(packets)[n])]

\* pkt[TCP].flags & 0x02
HasSynFlag(pkt) == pkt.flags \in {"S", "SA"}

\* lines 616-639: the first packet with the SYN flag or with a payload; its
\* source is taken for the client, its destination for the server
RECURSIVE DirectionPacket(_)
DirectionPacket(session_packets) ==
    IF session_packets = <<>> THEN NoneOpt
    ELSE IF HasSynFlag(Head(session_packets)) \/ HasRaw(Head(session_packets))
    THEN Some(Head(session_packets))
    ELSE DirectionPacket(Tail(session_packets))

comm_key(pkt) == <<pkt.src_ip, pkt.dst_ip, pkt.dport>>

\* lines 643-645: the packets of the flow, in either direction
flow_packets(session_packets, d) ==
    SelectSeq(session_packets, LAMBDA p :
        \/ p.src_ip = d.src_ip /\ p.dst_ip = d.dst_ip
           /\ p.sport = d.sport /\ p.dport = d.dport
        \/ p.src_ip = d.dst_ip /\ p.dst_ip = d.src_ip
           /\ p.sport = d.dport /\ p.dport = d.sport)

\* sorted(flow_packets, key=lambda p: (p.time, p[TCP].seq))
TimeSeqBefore(p, q) == p.time < q.time \/ (p.time = q.time /\ p.seq <= q.seq)
RECURSIVE ordered_payloads(_)
ordered_payloads(packets) ==
    IF packets = <<>> THEN <<>>
    ELSE LET first == CHOOSE i \in 1..Len(packets) :
                         /\ \A j \in 1..Len(packets) : TimeSeqBefore(packets[i], packets[j])
                         /\ \A j \in 1..(i - 1) : ~TimeSeqBefore(packets[j], packets[i])
         IN <<packets[first]>>
            \o ordered_payloads([j \in 1..(Len(packets) - 1) |->
                                    IF j < first THEN packets[j] ELSE packets[j + 1]])

\* stream_data: the payloads of the flow, concatenated
stream_data(packets) ==
    LET with_payload == SelectSeq(ordered_payloads(packets), HasRaw)
    IN [i \in 1..Len(with_payload) |-> with_payload[i].payload]

\* The stream of a session, <<>> when the direction cannot be determined
SessionStream(session_packets) ==
    IF DirectionPacket(session_packets).some
    THEN stream_data(flow_packets(session_packets, DirectionPacket(session_packets).v))
    ELSE <<>>

\* lines 603-667: the session is left out with `continue`.  Equal byte
\* strings have equal hashes.
SessionSkipped(session_packets, processed_stream_hashes) ==
    \/ Len(session_packets) < 3
    \/ ~DirectionPacket(session_packets).some
    \/ SessionStream(session_packets) = <<>>
    \/ SessionStream(session_packets) \in processed_stream_hashes

\* The locals of extract_dicom_metadata_from_pcap after rdpcap and sessions()
PcapRun(packets) ==
    [packets |-> packets, tcp_sessions |-> sessions(packets), session_idx |-> 1,
     ae_titles_from_summary |-> <<>>, processed_stream_hashes |-> {},
     results_by_ip |-> <<>>, session_log |-> <<>>, aggregated_results |-> <<>>,
     stream |-> <<>>, avail |-> 0, key |-> <<>>,
     pos |-> 0, pdu_idx |-> 1, pdv_idx |-> 0, pdv_pos |-> 0,
     found_metadata |-> NoMetadata, p_data_fragments |-> <<>>,
     parsed_p_data_success |-> FALSE, parse_log |-> <<>>, result |-> NoneOpt]

\* lines 682-687: a title that is missing or empty in the record of the
\* stream is taken from the packet scan
MergeTitle(title, summary_title) ==
    IF ~Truthy(title) /\ Truthy(summary_title) THEN summary_title ELSE title
MergedMetadata(metadata_obj, summary_aes) ==
    [metadata_obj EXCEPT !.CallingAE = MergeTitle(@, summary_aes.CallingAE),
                         !.CalledAE = MergeTitle(@, summary_aes.CalledAE)]

\* lines 711-718
minimal_metadata(summary_aes) ==
    [DicomExtractedMetadata(NoMetadata) EXCEPT !.CallingAE = summary_aes.CallingAE,
                                               !.CalledAE = summary_aes.CalledAE]

\* lines 679-729: what the session appends to results_by_ip[comm_key]
SessionRecords(metadata_obj, summary_aes) ==
    IF metadata_obj.some THEN <<MergedMetadata(metadata_obj.v, summary_aes)>>
    ELSE IF Truthy(summary_aes.CallingAE) \/ Truthy(summary_aes.CalledAE)
    THEN <<minimal_metadata(summary_aes)>>
    ELSE <<>>

\* results_by_ip[comm_key].append(comm_info): the keys keep the order in
\* which they were first used
AppendResults(results_by_ip, key, records) ==
    IF records = <<>> THEN results_by_ip
    ELSE IF \E i \in 1..Len(results_by_ip) : results_by_ip[i].key = key
    THEN [i \in 1..Len(results_by_ip) |->
             IF results_by_ip[i].key = key
             THEN [results_by_ip[i] EXCEPT !.comm_list = @ \o records]
             ELSE results_by_ip[i]]
    ELSE Append(results_by_ip, [key |-> key, comm_list |-> records])

\* lines 739-760: the entry of an IP pair before any stream is merged
agg_key(key_tuple) == key_tuple[1] \o "-" \o key_tuple[2]
NewAggregate(key_tuple) ==
    DicomExtractedMetadata(NoMetadata)
    @@ [client_ip |-> key_tuple[1], server_ip |-> key_tuple[2], server_ports |-> {}]

\* lines 771-782: a field is set only while it is None
\* A variant in which a later value replaces the one already set
FillLast(old, new) == IF new # VNone THEN new ELSE old
FillField(old, new) == IF old = VNone /\ new # VNone THEN new ELSE old
RECURSIVE AggregateMetadata(_, _)
AggregateMetadata(entry, comm_list) ==
    IF comm_list = <<>> THEN entry
    ELSE AggregateMetadata(
            [entry EXCEPT
                !.CallingAE = FillField(@, Head(comm_list).CallingAE),
                !.CalledAE = FillField(@, Head(comm_list).CalledAE),
                !.ImplementationClassUID = FillField(@, Head(comm_list).ImplementationClassUID),
                !.ImplementationVersionName =
                    FillField(@, Head(comm_list).ImplementationVersionName),
                !.Manufacturer = FillField(@, Head(comm_list).Manufacturer),
                !.ManufacturerModelName = FillField(@, Head(comm_list).ManufacturerModelName),
                !.DeviceSerialNumber = FillField(@, Head(comm_list).DeviceSerialNumber),
                !.SoftwareVersions = FillField(@, Head(comm_list).SoftwareVersions),
                !.TransducerData = FillField(@, Head(comm_list).TransducerData),
                !.StationName = FillField(@, Head(comm_list).StationName),
                !.negotiation_successful =
                    FillField(@, Head(comm_list).negotiation_successful)],
            Tail(comm_list))

AggregateGet(aggregated_results, key_tuple) ==
    IF agg_key(key_tuple) \in DOMAIN aggregated_results
    THEN aggregated_results[agg_key(key_tuple)] ELSE NewAggregate(key_tuple)

\* lines 737-782: `for key_tuple, comm_list in results_by_ip.items()`
RECURSIVE AggregateLoop(_, _)
AggregateLoop(results_by_ip, aggregated_results) ==
    IF results_by_ip = <<>> THEN aggregated_results
    ELSE AggregateLoop(Tail(results_by_ip),
            [k \in DOMAIN aggregated_results \cup {agg_key(Head(results_by_ip).key)} |->
                IF k # agg_key(Head(results_by_ip).key) THEN aggregated_results[k]
                ELSE AggregateMetadata(
                        [AggregateGet(aggregated_results, Head(results_by_ip).key)
                            EXCEPT !.server_ports = @ \cup {Head(results_by_ip).key[3]}],
                        Head(results_by_ip).comm_list)])

\* sorted(list(server_ports))
RECURSIVE sorted(_)
sorted(set) ==
    IF set = {} THEN <<>>
    ELSE LET least == CHOOSE x \in set : \A y \in set : x <= y
         IN <<least>> \o sorted(set \ {least})

\* lines 786-787
WithSortedPorts(aggregated_results) ==
    [k \in DOMAIN aggregated_results |->
        [aggregated_results[k] EXCEPT !.server_ports = sorted(@)]]

\* Where the capture file may start: at the first packet of the Scene, after
\* the A-ASSOCIATE-RQ of the first Link, after its first P-DATA-TF PDU
CaptureStarts == {0, 4, 8}

\* The capture written from the packets of process_scene is read:
\* rdpcap(pcap_file_path), packets.sessions()
ReadCapture ==
    /\ pc = "returned"
    /\ \E start \in CaptureStarts : ext' = PcapRun(rdpcap(all_packets, start))
    /\ pc' = "first_pass"
    /\ UNCHANGED <<scene, cache, all_packets, link_idx, link_log, raised, uid_n, tcp, job, anon>>

\* lines 523-568: the first pass over all packets
FirstPass ==
    /\ pc = "first_pass"
    /\ ext' = [ext EXCEPT !.ae_titles_from_summary = RawPayloadScan(ext.packets, <<>>)]
    /\ pc' = "sessions"
    /\ UNCHANGED <<scene, cache, all_packets, link_idx, link_log, raised, uid_n, tcp, job, anon>>

\* lines 579-667: a session that is left out
SkipSession ==
    /\ pc = "sessions"
    /\ ext.session_idx <= Len(ext.tcp_sessions)
    /\ SessionSkipped(ext.tcp_sessions[ext.session_idx], ext.processed_stream_hashes)
    /\ ext' = [ext EXCEPT
                  !.session_idx = @ + 1,
                  !.session_log = Append(@, [session_idx |-> ext.session_idx,
                                             skipped |-> TRUE, key |-> <<>>,
                                             stream |-> <<>>, summary_aes |-> NoSummary,
                                             found_metadata |-> NoMetadata,
                                             parse_log |-> <<>>, records |-> <<>>])]
    /\ UNCHANGED <<scene, cache, all_packets, link_idx, link_log, pc, raised, uid_n, tcp, job, anon>>

\* lines 579-671: a session whose stream is given to extract_relevant_metadata
StartStream ==
    /\ pc = "sessions"
    /\ ext.session_idx <= Len(ext.tcp_sessions)
    /\ ~SessionSkipped(ext.tcp_sessions[ext.session_idx], ext.processed_stream_hashes)
    /\ \E session_packets \in {ext.tcp_sessions[ext.session_idx]} :
       \E stream \in {SessionStream(session_packets)} :
          ext' = [ext EXCEPT
                     !.processed_stream_hashes = @ \cup {stream},
                     !.stream = stream, !.avail = StreamLen(stream),
                     !.key = comm_key(DirectionPacket(session_packets).v),
                     !.pos = 0, !.pdu_idx = 1, !.pdv_idx = 0, !.pdv_pos = 0,
                     !.found_metadata = NoMetadata, !.p_data_fragments = <<>>,
                     !.parsed_p_data_success = FALSE, !.parse_log = <<>>,
                     !.result = NoneOpt]
    /\ pc' = "stream_loop"
    /\ UNCHANGED <<scene, cache, all_packets, link_idx, link_log, raised, uid_n, tcp, job, anon>>

\* lines 673-729: the record of the stream is merged with the titles of the
\* packet scan and stored under the key of the stream
MergeStream ==
    /\ pc = "stream_returned"
    /\ \E summary_aes \in {SummaryGet(ext.ae_titles_from_summary, ext.key)} :
       \E records \in {SessionRecords(ext.result, summary_aes)} :
          ext' = [ext EXCEPT
                     !.results_by_ip = AppendResults(@, ext.key, records),
                     !.session_idx = @ + 1,
                     !.session_log = Append(@, [session_idx |-> ext.session_idx,
                                                skipped |-> FALSE, key |-> ext.key,
                                                stream |-> ext.stream,
                                                summary_aes |-> summary_aes,
                                                found_metadata |-> ext.found_metadata,
                                                parse_log |-> ext.parse_log,
                                                records |-> records])]
    /\ pc' = "sessions"
    /\ UNCHANGED <<scene, cache, all_packets, link_idx, link_log, raised, uid_n, tcp, job, anon>>

\* lines 735-795: after the last session the results are aggregated by IP pair
Aggregate ==
    /\ pc = "sessions"
    /\ ext.session_idx > Len(ext.tcp_sessions)
    /\ ext' = [ext EXCEPT !.aggregated_results =
                              WithSortedPorts(AggregateLoop(ext.results_by_ip, <<>>))]
    /\ pc' = "pcap_returned"
    /\ UNCHANGED <<scene, cache, all_packets, link_idx, link_log, raised, uid_n, tcp, job, anon>>

NextPcap ==
    \/ ResolveAssets \/ ProcessLink \/ Return
    \/ ReadCapture \/ FirstPass \/ SkipSession \/ StartStream
    \/ ReadPdu \/ ReadPdv \/ FinishStream
    \/ MergeStream \/ Aggregate

(***************************************************************************)
(* Scenes for the round trip: the SCU with AE title SCU1 and Manufacturer  *)
(* Acme, the SCP with AE title SCP1, up to MaxConnections Links between    *)
(* them.                                                                   *)
(***************************************************************************)
RoundTripAssets ==
    <<[ASSET_CT EXCEPT !.dicom_properties.ae_title = "SCU1"],
      [ASSET_PACS EXCEPT !.dicom_properties.ae_title = "SCP1"]>>

RoundTripContexts == Some(<<MkContext(1, CTImageStorage, <<ImplicitVRLE>>),
                            MkContext(3, Verification, <<ImplicitVRLE>>)>>)

\* A C-STORE whose dataset has the Manufacturer of the SCU
ManufacturerStore ==
    StoreOp(1, "1.2.3.4.5",
            Some(<<<<"Manufacturer", VS("AUTO_FROM_ASSET_SCU_MANUFACTURER")>>>>))

\* A second DICOM port of the SCP node
OtherPortConn ==
    Some([source_mac |-> "00:1A:2B:3C:4D:01", destination_mac |-> "00:1A:2B:3C:4D:02",
          source_ip |-> "192.168.1.10", destination_ip |-> "192.168.1.20",
          source_port |-> 50000, destination_port |-> 11113])

RoundTripLinks ==
    { MkLink(ValidRefs, NoneOpt, RoundTripContexts, <<EchoOp(3)>>),
      MkLink(ValidRefs, OtherPortConn, RoundTripContexts, <<EchoOp(3)>>),
      MkLink(ValidRefs, NoneOpt, RoundTripContexts, <<ManufacturerStore>>),
      MkLink(ValidRefs, NoneOpt, RoundTripContexts,
             <<ManufacturerStore, ManufacturerStore>>),
      MkLink(ValidRefs, NoneOpt, RoundTripContexts, <<EchoOp(5)>>) }

RoundTripScenes ==
    { [assets |-> RoundTripAssets, links |-> NumberLinks(ls)] :
         ls \in {l \in SeqsUpTo(RoundTripLinks, MaxConnections) : l # <<>>} }

\* A C-STORE whose dataset has a Manufacturer written in the rule
ZetaStore == StoreOp(1, "1.2.3.4.6", Some(<<<<"Manufacturer", VS("Zeta")>>>>))

\* Scenes of three Links: a C-ECHO association, then two associations whose
\* datasets name different manufacturers, on one server port or on two
InterleavedScenes ==
    { [assets |-> RoundTripAssets,
       links |-> NumberLinks(<<MkLink(ValidRefs, NoneOpt, RoundTripContexts, <<EchoOp(3)>>),
                               MkLink(ValidRefs, cd, RoundTripContexts,
                                      <<ZetaStore, ZetaStore>>),
                               MkLink(ValidRefs, NoneOpt, RoundTripContexts, dimse)>>)] :
         cd \in {NoneOpt, OtherPortConn},
         dimse \in {<<ManufacturerStore, ManufacturerStore>>,
                    <<ManufacturerStore, ZetaStore, ZetaStore>>} }

InitPcap == scene \in RoundTripScenes \cup InterleavedScenes /\ Constructed

SpecPcap == InitPcap /\ [][NextPcap]_vars

(***************************************************************************)
(* Background jobs (main.py) and the long-running operations they call:    *)
(* apply_anonymization, apply_mac_transformation and                       *)
(* extract_dicom_metadata_from_pcap.  A job is either started by its       *)
(* runner in main.py (driver "runner") or its operation is called with     *)
(* every parameter of its signature, the callbacks included (driver        *)
(* "direct").  A capture is the sequence of the sizes of its TCP sessions. *)
(***************************************************************************)
\* `i % 100 == 0` in the cancellation checks of the packet loops
POLL_INTERVAL == 100

RECURSIVE PacketCount(_)
PacketCount(capture) ==
    IF capture = <<>> THEN 0 ELSE Head(capture) + PacketCount(Tail(capture))

\* The function a job of a type calls
Operation(job_type) ==
    CASE job_type = "transform" -> "apply_anonymization"
      [] job_type = "mac_transform" -> "apply_mac_transformation"
      [] job_type = "dicom_extract" -> "extract_dicom_metadata_from_pcap"

\* The parameters in the signature of each operation
Parameters(operation) ==
    CASE operation = "apply_anonymization" ->
            {"session_id", "progress_callback", "check_stop_requested"}
      [] operation = "apply_mac_transformation" ->
            {"input_trace_id", "input_pcap_filename", "new_output_trace_id",
             "output_pcap_filename", "progress_callback", "check_stop_requested"}
      [] operation = "extract_dicom_metadata_from_pcap" ->
            {"session_id", "progress_callback", "check_stop_requested"}

\* The keyword arguments of the call: those written in the runner of main.py,
\* or every parameter of the signature
Keywords(driver, job_type) ==
    CASE driver = "direct" -> Parameters(Operation(job_type))
      [] driver = "runner" /\ job_type = "transform" ->
            {"input_trace_id", "input_pcap_filename", "new_output_trace_id",
             "output_pcap_filename", "progress_callback", "check_stop_requested"}
      [] driver = "runner" /\ job_type = "mac_transform" ->
            {"input_trace_id", "input_pcap_filename", "new_output_trace_id",
             "output_pcap_filename"}
      [] driver = "runner" /\ job_type = "dicom_extract" ->
            {"session_id", "pcap_file_name", "job_id", "db_session"}

\* The class each operation raises `JobCancelledException` from
CancelSignal(job_type) ==
    CASE job_type = "transform" -> "backend.anonymizer.JobCancelledException"
      [] job_type = "mac_transform" -> "backend.exceptions.JobCancelledException"
      [] job_type = "dicom_extract" -> "backend.dicom_pcap_extractor.JobCancelledException"
CancelSignals == {CancelSignal(t) : t \in {"transform", "mac_transform", "dicom_extract"}}

\* The except clauses of a runner: `except JobCancelledException` names the
\* class imported from backend.exceptions, every other exception is a failure
ExceptStatus(exception) ==
    IF exception = "backend.exceptions.JobCancelledException" THEN "cancelled" ELSE "failed"

\* check_stop_requested() of run_apply_anonymization: the AsyncJob row is read
should_stop(j) == j.stop_requested \/ j.status = "cancelling"

\* `if check_stop_requested and (i % 100 == 0 or i == total_packets - 1)`
PollDue(check_stop_requested, i, total_packets) ==
    check_stop_requested /\ (i % POLL_INTERVAL = 0 \/ i = total_packets - 1)

\* The job before its background task runs, or the call of its operation
NewJob(driver, job_type, capture, capture_found) ==
    [driver |-> driver, job_type |-> job_type,
     capture |-> capture, capture_found |-> capture_found,
     status |-> IF driver = "runner" THEN "pending" ELSE "running",
     stop_requested |-> FALSE, output_trace_id |-> FALSE, result_data |-> FALSE,
     check_stop_requested |-> FALSE,
     i |-> 0, session_count |-> 0, j |-> 0, done |-> 0, new_packets |-> 0,
     exception |-> "none", files |-> {}, traces |-> {},
     requests |-> 0, response |-> 0, accepted_at |-> "never", early_stop |-> FALSE,
     since_poll |-> 0, final_poll |-> "none", stop_at_final |-> FALSE]

\* The packet loop of the operation has not reached its last packet
BeforeFinalPacket ==
    \/ pc \in {"queued", "called", "first_pass"}
    \/ pc = "loop" /\ job.i < PacketCount(job.capture)
    \/ pc \in {"session_loop", "session_packets"} /\ job.done < PacketCount(job.capture)

\* POST /jobs/{job_id}/cancel: a job that is neither pending nor running is
\* answered with 400 and left alone; a job whose row is deleted is answered
\* with 404
\* A variant that accepts the request in every status
CancellableAlways(status) == TRUE
\* `if job.status not in ["pending", "running"]`
Cancellable(status) == status \in {"pending", "running"}

cancel_job ==
    /\ job.driver # "none"
    /\ pc # "deleted"
    /\ job.requests < MaxRequests
    /\ IF Cancellable(job.status)
       THEN job' = [job EXCEPT !.status = "cancelling", !.stop_requested = TRUE,
                               !.response = 200, !.requests = @ + 1,
                               !.accepted_at = IF job.stop_requested THEN @ ELSE pc,
                               !.early_stop = @ \/ BeforeFinalPacket]
       ELSE job' = [job EXCEPT !.response = 400, !.requests = @ + 1]
    /\ UNCHANGED <<scene, cache, all_packets, link_idx, link_log, pc, raised, uid_n, tcp, ext, anon>>

\* The head of a runner: a job that is already being cancelled is not started
RunnerStart ==
    /\ pc = "queued"
    /\ IF job.status = "cancelling" \/ (job.job_type = "transform" /\ job.stop_requested)
       THEN /\ job' = [job EXCEPT !.status = "cancelled"]
            /\ pc' = "finished"
       ELSE /\ job' = [job EXCEPT !.status = "running"]
            /\ pc' = "called"
    /\ UNCHANGED <<scene, cache, all_packets, link_idx, link_log, raised, uid_n, tcp, ext, anon>>

\* The call of the operation and what it does before its loop: a keyword the
\* signature does not have is a TypeError, a capture that is not in the store
\* a FileNotFoundError
CallOperation ==
    /\ pc = "called"
    /\ IF ~(Keywords(job.driver, job.job_type) \subseteq Parameters(Operation(job.job_type)))
       THEN /\ job' = [job EXCEPT !.exception = "TypeError"]
            /\ pc' = "op_raised"
       ELSE IF ~job.capture_found
       THEN /\ job' = [job EXCEPT !.exception = "FileNotFoundError"]
            /\ pc' = "op_raised"
       ELSE /\ job' = [job EXCEPT !.check_stop_requested =
                                     "check_stop_requested" \in Keywords(job.driver, job.job_type)]
            /\ pc' = IF job.job_type = "dicom_extract" THEN "first_pass" ELSE "loop"
    /\ UNCHANGED <<scene, cache, all_packets, link_idx, link_log, raised, uid_n, tcp, ext, anon>>

\* One iteration of `for i, pkt in enumerate(packets)` of apply_anonymization
\* or apply_mac_transformation
AnonymizePacket ==
    /\ pc = "loop"
    /\ job.i < PacketCount(job.capture)
    /\ IF PollDue(job.check_stop_requested, job.i, PacketCount(job.capture)) /\ should_stop(job)
       THEN /\ job' = [job EXCEPT !.exception = CancelSignal(job.job_type)]
            /\ pc' = "op_raised"
       ELSE /\ job' = [job EXCEPT
                          !.i = @ + 1,
                          !.new_packets = @ + 1,
                          !.since_poll =
                              IF PollDue(job.check_stop_requested, job.i,
                                         PacketCount(job.capture))
                              THEN 1 ELSE @ + 1,
                          !.final_poll =
                              IF job.i # PacketCount(job.capture) - 1 THEN @
                              ELSE IF PollDue(job.check_stop_requested, job.i,
                                              PacketCount(job.capture))
                              THEN "polled" ELSE "skipped",
                          !.stop_at_final =
                              job.i = PacketCount(job.capture) - 1 /\ should_stop(job)]
            /\ pc' = pc
    /\ UNCHANGED <<scene, cache, all_packets, link_idx, link_log, raised, uid_n, tcp, ext, anon>>

\* After the loop the processed packets are written and the path is returned
WriteOutput ==
    /\ pc = "loop"
    /\ job.i = PacketCount(job.capture)
    /\ job' = [job EXCEPT !.files = @ \cup {"output.pcap"}]
    /\ pc' = "op_returned"
    /\ UNCHANGED <<scene, cache, all_packets, link_idx, link_log, raised, uid_n, tcp, ext, anon>>

\* The first pass of the extractor over the packets: no cancellation check
ScanCapturePacket ==
    /\ pc = "first_pass"
    /\ IF job.i < PacketCount(job.capture)
       THEN /\ job' = [job EXCEPT !.i = @ + 1, !.since_poll = @ + 1]
            /\ pc' = pc
       ELSE /\ job' = job
            /\ pc' = "session_loop"
    /\ UNCHANGED <<scene, cache, all_packets, link_idx, link_log, raised, uid_n, tcp, ext, anon>>

\* The head of `for session_key, session_packets in tcp_sessions.items()`:
\* the one cancellation check of the extractor
BeginSession ==
    /\ pc = "session_loop"
    /\ job.session_count < Len(job.capture)
    /\ IF job.check_stop_requested /\ should_stop(job)
       THEN /\ job' = [job EXCEPT !.session_count = @ + 1,
                                  !.exception = CancelSignal(job.job_type)]
            /\ pc' = "op_raised"
       ELSE /\ job' = [job EXCEPT !.session_count = @ + 1, !.j = 0,
                                  !.since_poll = IF job.check_stop_requested THEN 0 ELSE @]
            /\ pc' = "session_packets"
    /\ UNCHANGED <<scene, cache, all_packets, link_idx, link_log, raised, uid_n, tcp, ext, anon>>

\* One packet of the session is taken into its stream
ReassemblePacket ==
    /\ pc = "session_packets"
    /\ job' = [job EXCEPT
                  !.j = @ + 1, !.done = @ + 1, !.since_poll = @ + 1,
                  !.final_poll = IF job.done + 1 = PacketCount(job.capture)
                                 THEN "skipped" ELSE @,
                  !.stop_at_final =
                      job.done + 1 = PacketCount(job.capture) /\ should_stop(job)]
    /\ pc' = IF job.j + 1 = job.capture[job.session_count]
             THEN "session_loop" ELSE pc
    /\ UNCHANGED <<scene, cache, all_packets, link_idx, link_log, raised, uid_n, tcp, ext, anon>>

\* After the last session the aggregated metadata is returned
ReturnMetadata ==
    /\ pc = "session_loop"
    /\ job.session_count = Len(job.capture)
    /\ job' = job
    /\ pc' = "op_returned"
    /\ UNCHANGED <<scene, cache, all_packets, link_idx, link_log, raised, uid_n, tcp, ext, anon>>

\* A variant that reports a job whose stop was requested as cancelled although
\* its operation returned
CompletionHonoursStop(j) == IF should_stop(j) THEN "cancelled" ELSE "completed"
\* `job.status = "completed"` after the operation returned and its output trace
\* was added: the stop request is not looked at again
CompletionStatus(j) == "completed"

\* The runner after the operation returned: the output trace is recorded (the
\* extraction stores its result in the job) and the job is completed
RunnerComplete ==
    /\ pc = "op_returned"
    /\ job.driver = "runner"
    /\ job' = [job EXCEPT
                  !.status = CompletionStatus(job),
                  !.traces = IF job.job_type = "dicom_extract" THEN @
                             ELSE @ \cup {"output_trace"},
                  !.output_trace_id = job.job_type # "dicom_extract",
                  !.result_data = job.job_type = "dicom_extract"]
    /\ pc' = "finished"
    /\ UNCHANGED <<scene, cache, all_packets, link_idx, link_log, raised, uid_n, tcp, ext, anon>>

\* The runner after the operation raised
RunnerExcept ==
    /\ pc = "op_raised"
    /\ job.driver = "runner"
    /\ job' = [job EXCEPT !.status = ExceptStatus(job.exception)]
    /\ pc' = "finished"
    /\ UNCHANGED <<scene, cache, all_packets, link_idx, link_log, raised, uid_n, tcp, ext, anon>>

NextJob ==
    \/ cancel_job \/ RunnerStart \/ CallOperation
    \/ AnonymizePacket \/ WriteOutput
    \/ ScanCapturePacket \/ BeginSession \/ ReassemblePacket \/ ReturnMetadata
    \/ RunnerComplete \/ RunnerExcept

\* The captures: up to MaxSessions TCP sessions of 3, 4 or MaxPackets packets
SessionSizes == {3, 4, MaxPackets}
Captures == SeqsUpTo(SessionSizes, MaxSessions)
JobTypes == {"transform", "mac_transform", "dicom_extract"}

InitJob ==
    /\ scene = [assets |-> <<>>, links |-> <<>>]
    /\ cache = <<>> /\ all_packets = <<>> /\ link_idx = 1 /\ link_log = <<>>
    /\ raised = "none" /\ uid_n = 0 /\ tcp = NoCall /\ ext = NoRun /\ anon = NoAnon
    /\ \E driver \in {"runner", "direct"} : \E job_type \in JobTypes :
       \E capture \in Captures : \E capture_found \in BOOLEAN :
          /\ job = NewJob(driver, job_type, capture, capture_found)
          /\ pc = IF driver = "runner" THEN "queued" ELSE "called"

SpecJob == InitJob /\ [][NextJob]_vars

(***************************************************************************)
(* The life of a job across a restart of the backend and the deletion of   *)
(* its row.  A background task lives in the process that queued it: when   *)
(* the backend stops, the task is gone, and the row of the job is all that *)
(* the next process finds.                                                 *)
(***************************************************************************)
TerminalStatuses == {"completed", "failed", "cancelled"}

\* A variant that takes every job that is not completed for a stale one
StaleUnlessCompleted(status) == status # "completed"
\* `select(AsyncJob).where(AsyncJob.status == "running")`
Stale(status) == status = "running"

\* The backend stops and starts again: lifespan marks the stale jobs failed
lifespan ==
    /\ job.driver = "runner"
    /\ pc # "deleted"
    /\ job' = IF Stale(job.status) THEN [job EXCEPT !.status = "failed"] ELSE job
    /\ pc' = "restarted"
    /\ UNCHANGED <<scene, cache, all_packets, link_idx, link_log, raised, uid_n, tcp, ext, anon>>

\* `if job.status in ["running", "pending", "cancelling"]`: 400 (line 1540)
Deletable(status) == status \notin {"running", "pending", "cancelling"}

\* DELETE /jobs/{job_id}
delete_job_record ==
    /\ job.driver = "runner"
    /\ pc # "deleted"
    /\ IF Deletable(job.status)
       THEN /\ job' = [job EXCEPT !.response = 204]
            /\ pc' = "deleted"
       ELSE /\ job' = [job EXCEPT !.response = 400]
            /\ pc' = pc
    /\ UNCHANGED <<scene, cache, all_packets, link_idx, link_log, raised, uid_n, tcp, ext, anon>>

\* The steps of the background task of a job
BackgroundTask ==
    \/ RunnerStart \/ CallOperation
    \/ AnonymizePacket \/ WriteOutput
    \/ ScanCapturePacket \/ BeginSession \/ ReassemblePacket \/ ReturnMetadata
    \/ RunnerComplete \/ RunnerExcept

NextLifecycle == NextJob \/ lifespan \/ delete_job_record

SpecLifecycle == InitJob /\ [][NextLifecycle]_vars

\* The event loop runs a queued background task to its end for as long as the
\* process lives; requests and restarts come as they may
SpecLifecycleFair == InitJob /\ [][NextLifecycle]_vars /\ WF_vars(BackgroundTask)

(***************************************************************************)
(* The address maps of anonymizer.py: `ip_map` and `mac_map` are module    *)
(* globals, apply_anonymization empties them when it starts and fills them *)
(* packet by packet.  Two invocations of apply_anonymization run in two    *)
(* threads of one process; a step is one packet of one invocation.  Each   *)
(* entry of a map remembers the invocation that wrote it.                  *)
(***************************************************************************)
Invocations == {1, 2}
Hosts == {"h1", "h2"}
\* What `randint` can make of the tail of a MAC address, and of 10.x.x.x
AnonMacs == {"00:00:01", "00:00:02"}
RandomIps == {"10.0.0.1", "10.0.0.2", "10.0.0.3"}
\* The saved rules of a session: none, or one that translates h1
RuleSets == {<<>>, <<[source |-> "h1", target |-> "192.168.0.1"]>>}

\* The values of a map
MapValues(m) == {m[key].value : key \in DOMAIN m}

\* anon_mac(mac): the OUI is kept and the tail is random
anon_mac(mac) == {<<mac, tail>> : tail \in AnonMacs}

\* anon_ip(ip, rules): the target of the first rule that has the address,
\* else a random address that is not a value of the module's ip_map, else,
\* when none is left, an address of 10.255.255.x
anon_ip(ip, rules, ip_map) ==
    IF \E n \in 1..Len(rules) : rules[n].source = ip
    THEN {rules[CHOOSE n \in 1..Len(rules) :
                    /\ rules[n].source = ip
                    /\ \A m \in 1..(n - 1) : rules[m].source # ip].target}
    ELSE IF RandomIps \ MapValues(ip_map) # {}
    THEN RandomIps \ MapValues(ip_map)
    ELSE {"10.255.255.1"}

\* m.setdefault(key, value) by invocation k
SetDefault(m, key, value, k) ==
    IF key \in DOMAIN m THEN m
    ELSE [x \in DOMAIN m \cup {key} |->
             IF x = key THEN [value |-> value, by |-> k] ELSE m[x]]

\* An entry of the map that an invocation other than k wrote
Foreign(m, k) == \E key \in DOMAIN m : m[key].by # k

NewInvocation ==
    [at |-> "idle", rules |-> <<>>, total_packets |-> 0, i |-> 0,
     foreign_read |-> FALSE, wiped |-> FALSE]

\* `global ip_map, mac_map; ip_map.clear(); mac_map.clear()` and the loading of
\* the rules and of the packets
ClearMaps(k) ==
    /\ pc = "anonymizer"
    /\ anon.inv[k].at = "idle"
    /\ \E rules \in RuleSets : \E total_packets \in 1..MaxAnonPackets :
          anon' = [ip_map |-> <<>>, mac_map |-> <<>>,
                   inv |-> [x \in Invocations |->
                       IF x = k
                       THEN [anon.inv[k] EXCEPT !.at = "loop", !.rules = rules,
                                                !.total_packets = total_packets]
                       ELSE [anon.inv[x] EXCEPT
                                !.wiped = @ \/ (anon.inv[x].at = "loop"
                                                /\ DOMAIN anon.ip_map # {})]]]
    /\ UNCHANGED <<scene, cache, all_packets, link_idx, link_log, pc, raised, uid_n, tcp, ext, job>>

\* One packet: the four setdefault calls on the module's maps
Translated(k, src, dst, macs, ips) ==
    /\ anon' = [anon EXCEPT
                   !.mac_map = macs, !.ip_map = ips,
                   !.inv[k].i = @ + 1,
                   !.inv[k].foreign_read =
                       @ \/ macs[src].by # k \/ macs[dst].by # k
                         \/ ips[src].by # k \/ ips[dst].by # k]

TranslateIps(k, src, dst, macs) ==
    \E s \in anon_ip(src, anon.inv[k].rules, anon.ip_map) :
    \E ip1 \in {SetDefault(anon.ip_map, src, s, k)} :
    \E d \in anon_ip(dst, anon.inv[k].rules, ip1) :
       Translated(k, src, dst, macs, SetDefault(ip1, dst, d, k))

TranslatePacket(k) ==
    /\ pc = "anonymizer"
    /\ anon.inv[k].at = "loop"
    /\ anon.inv[k].i < anon.inv[k].total_packets
    /\ \E src \in Hosts : \E dst \in Hosts :
       \E s \in anon_mac(src) : \E d \in anon_mac(dst) :
       \E mac1 \in {SetDefault(anon.mac_map, src, s, k)} :
          TranslateIps(k, src, dst, SetDefault(mac1, dst, d, k))
    /\ UNCHANGED <<scene, cache, all_packets, link_idx, link_log, pc, raised, uid_n, tcp, ext, job>>

\* `wrpcap(output_path, new_packets)` and the return
WriteAnonymized(k) ==
    /\ pc = "anonymizer"
    /\ anon.inv[k].at = "loop"
    /\ anon.inv[k].i = anon.inv[k].total_packets
    /\ anon' = [anon EXCEPT !.inv[k].at = "returned"]
    /\ UNCHANGED <<scene, cache, all_packets, link_idx, link_log, pc, raised, uid_n, tcp, ext, job>>

NextAnon ==
    \E k \in Invocations : ClearMaps(k) \/ TranslatePacket(k) \/ WriteAnonymized(k)

InitAnon ==
    /\ scene = [assets |-> <<>>, links |-> <<>>]
    /\ cache = <<>> /\ all_packets = <<>> /\ link_idx = 1 /\ link_log = <<>>
    /\ raised = "none" /\ uid_n = 0 /\ tcp = NoCall /\ ext = NoRun /\ job = NoJob
    /\ pc = "anonymizer"
    /\ anon = [ip_map |-> <<>>, mac_map |-> <<>>,
               inv |-> [k \in Invocations |-> NewInvocation]]

SpecAnon == InitAnon /\ [][NextAnon]_vars

(***************************************************************************)
(* Properties of process_scene.                                            *)
(***************************************************************************)
\* The four Asset references of a Link
AssetRefs(link) ==
    {link.dicom_config.scu_asset_id_ref, link.dicom_config.scp_asset_id_ref,
     link.source_asset_id_ref, link.destination_asset_id_ref}

\* A Link that references an Asset id the Scene does not define
HasUndefinedAsset(link) == \E ref \in AssetRefs(link) : ~AssetMapHas(scene.assets, ref)

\* A Link whose source or destination node reference names no Node of the
\* Asset it references
HasUndefinedNode(link) ==
    \/ /\ AssetMapHas(scene.assets, link.source_asset_id_ref)
       /\ get_node_from_asset(AssetMapGet(scene.assets, link.source_asset_id_ref),
                              link.source_node_id_ref).err # "none"
    \/ /\ AssetMapHas(scene.assets, link.destination_asset_id_ref)
       /\ get_node_from_asset(AssetMapGet(scene.assets, link.destination_asset_id_ref),
                              link.destination_node_id_ref).err # "none"

\* C1: if any Link references, as SCU, SCP, source or destination, an Asset
\* id that the Scene does not define, process_scene does not return a packet
\* list: it never reaches its return statement.
C1_UndefinedAssetAbortsScene ==
    pc = "returned" =>
        \A i \in 1..Len(scene.links) : ~HasUndefinedAsset(scene.links[i])

\* C2: if any Link's source or destination node reference names a Node that
\* the referenced Asset does not have, process_scene does not return a
\* packet list: the whole Scene is aborted, not only that Link.
C2_UndefinedNodeAbortsScene ==
    pc = "returned" =>
        \A i \in 1..Len(scene.links) : ~HasUndefinedNode(scene.links[i])

\* Errors of a Link that are no Asset or Node integrity error
OtherLinkErrors == {"TypeError", "ValueError"}

\* What the Links processed so far contribute: the complete TCP session of
\* every Link that did not fail, in the order of the Links
SessionsOfProcessedLinks ==
    Concat([i \in 1..Len(link_log) |->
        IF link_log[i].err = "none"
        THEN generate_dicom_session_packet_list(
                 link_log[i].conn, link_log[i].rq_pdu, link_log[i].ac_pdu,
                 link_log[i].p_data, DEFAULT_CLIENT_ISN, DEFAULT_SERVER_ISN)
        ELSE <<>>])

\* C3: a Link that fails with an error other than an Asset or Node integrity
\* error does not stop process_scene and contributes no packet; the packets
\* gathered are exactly the complete sessions (handshake, association,
\* P-DATA-TF exchange, teardown) of the Links that did not fail, in order.
C3_FailedLinkContributesNothing ==
    /\ raised \notin OtherLinkErrors
    /\ \A i \in 1..Len(link_log) :
          link_log[i].err \in OtherLinkErrors => link_log[i].packets = <<>>
    /\ \A i \in 1..Len(link_log) :
          link_log[i].err = "none" =>
              Len(link_log[i].packets) = 11 + 2 * Len(link_log[i].p_data)
    /\ all_packets = SessionsOfProcessedLinks
    /\ pc = "returned" => Len(link_log) = Len(scene.links)

\* A returned Scene whose first Link failed with such an error and whose
\* second Link contributed its session
C3_Witness ==
    /\ pc = "returned"
    /\ Len(link_log) = 2
    /\ link_log[1].err \in OtherLinkErrors
    /\ link_log[2].err = "none"
    /\ all_packets = link_log[2].packets
    /\ all_packets # <<>>

\* Whether the AC results accept (result 0) a presentation-context id
IsAccepted(ac_results, pc_id) ==
    \E k \in 1..Len(ac_results) : ac_results[k].id = pc_id /\ ac_results[k].result = 0

\* The command PDUs among P-DATA-TF PDUs, in order
CommandPdus(pdus) == SelectSeq(pdus, LAMBDA p : p.pdvs[1].mch = 3)

\* The operations a Link gives: its dimse_sequence
OpsOfLink(i) == scene.links[i].dicom_config.dimse_sequence

\* C4: in a Link's DIMSE sequence an operation whose presentation_context_id
\* has no accepted (result 0) AC result produces no P-DATA-TF PDU, and the
\* other operations produce theirs in the order of the sequence: the command
\* PDUs are those of the accepted operations, one each and in order, and
\* every PDU travels on an accepted presentation context.
C4_UnacceptedOpSkipped ==
    \A i \in 1..Len(link_log) :
        link_log[i].err = "none" /\ OpsOfLink(i) # <<>> =>
            LET run == SelectSeq(OpsOfLink(i), LAMBDA op :
                           IsAccepted(link_log[i].ac_results, op.presentation_context_id))
                cmds == CommandPdus(link_log[i].p_data)
            IN /\ Len(cmds) = Len(run)
               /\ \A k \in 1..Len(run) :
                     /\ cmds[k].pdvs[1].presentation_context_id
                            = run[k].presentation_context_id
                     /\ DsGet(cmds[k].pdvs[1].dataset, "MessageID")
                            = VI(run[k].command_set.MessageID)
               /\ \A k \in 1..Len(link_log[i].p_data) :
                     IsAccepted(link_log[i].ac_results,
                                link_log[i].p_data[k].pdvs[1].presentation_context_id)
               /\ link_log[i].p_data # <<>> => link_log[i].p_data[1].pdvs[1].mch = 3
               /\ \A k \in 1..(Len(link_log[i].p_data) - 1) :
                     link_log[i].p_data[k].pdvs[1].mch = 2
                         => link_log[i].p_data[k + 1].pdvs[1].mch = 3

\* A Link whose first operation names a rejected context and whose second, a
\* C-STORE on the accepted context, still produces its command and data PDUs
C4_Witness ==
    /\ pc = "returned"
    /\ Len(link_log) = 1
    /\ link_log[1].err = "none"
    /\ Len(OpsOfLink(1)) = 2
    /\ OpsOfLink(1)[1].presentation_context_id = 3
    /\ OpsOfLink(1)[2].message_type = "C-STORE-RQ"
    /\ Len(link_log[1].p_data) = 2
    /\ link_log[1].per_op[1].skipped

\* C5: in every association process_scene builds, in explicit mode as in auto
\* mode, the presentation-context ids the A-ASSOCIATE-RQ proposes are all odd
\* and pairwise distinct.
C5_RqContextIdsOddAndDistinct ==
    \A i \in 1..Len(link_log) :
        link_log[i].err = "none" =>
            LET ctx == link_log[i].rq_pdu.contexts
            IN /\ \A k \in 1..Len(ctx) : ctx[k].id % 2 = 1
               /\ \A k, m \in 1..Len(ctx) : k # m => ctx[k].id # ctx[m].id

\* The SOP classes of the SCU and the SCP of a Link, as resolved
ScuSops(i) == CacheGet(cache, scene.links[i].dicom_config.scu_asset_id_ref)
                  .supported_sop_classes.v
ScpSops(i) == CacheGet(cache, scene.links[i].dicom_config.scp_asset_id_ref)
                  .supported_sop_classes.v

AbstractSyntaxes == {Verification, CTImageStorage, MRImageStorage}

\* The SCU offers the abstract syntax (role SCU or BOTH) and the SCP supports
\* it (role SCP or BOTH)
OnBothSides(i, uid) ==
    /\ SopMapHas(ScuSops(i), {"SCU", "BOTH"}, uid)
    /\ SopMapHas(ScpSops(i), {"SCP", "BOTH"}, uid)

\* The transfer syntaxes each side maps the abstract syntax to
ScuTs(i, uid) == SopMapGet(ScuSops(i), {"SCU", "BOTH"}, uid).transfer_syntaxes
ScpTs(i, uid) == SopMapGet(ScpSops(i), {"SCP", "BOTH"}, uid).transfer_syntaxes

\* The positions in the SCU's list of the transfer syntaxes both sides have
CommonPositions(i, uid) ==
    {k \in 1..Len(ScuTs(i, uid)) : \E m \in 1..Len(ScpTs(i, uid)) :
                                       ScuTs(i, uid)[k] = ScpTs(i, uid)[m]}

\* An auto-mode Link whose association was built
AutoBuilt(i) == link_log[i].auto /\ link_log[i].err = "none"

\* C6: in auto mode, for each abstract syntax the SCU offers with role SCU or
\* BOTH and the SCP supports with role SCP or BOTH and whose transfer-syntax
\* intersection is not empty, a context of the RQ proposes the SCU's full
\* transfer-syntax list for it and the AC result of the same id accepts it
\* (result 0) with the first member of the intersection.
C6_AutoProposesFullAcceptsFirstCommon ==
    \A i \in 1..Len(link_log) : AutoBuilt(i) =>
        \A uid \in AbstractSyntaxes :
            OnBothSides(i, uid) /\ CommonPositions(i, uid) # {} =>
                \E k \in 1..Len(link_log[i].rq_pdu.contexts) :
                    LET ctx == link_log[i].rq_pdu.contexts[k]
                        first == CHOOSE c \in CommonPositions(i, uid) :
                                     \A d \in CommonPositions(i, uid) : c <= d
                    IN /\ ctx.abstract_syntax = uid
                       /\ ctx.transfer_syntaxes = ScuTs(i, uid)
                       /\ k <= Len(link_log[i].ac_pdu.results)
                       /\ link_log[i].ac_pdu.results[k].id = ctx.id
                       /\ link_log[i].ac_pdu.results[k].result = 0
                       /\ link_log[i].ac_pdu.results[k].transfer_syntax
                              = ScuTs(i, uid)[first]

\* An auto-mode association where the SCU lists two transfer syntaxes, both
\* common, in the order opposite to the SCP's
C6_Witness ==
    /\ pc = "returned"
    /\ Len(link_log) = 1
    /\ AutoBuilt(1)
    /\ OnBothSides(1, Verification)
    /\ ScuTs(1, Verification) = <<ImplicitVRLE, ExplicitVRLE>>
    /\ ScpTs(1, Verification) = <<ExplicitVRLE, ImplicitVRLE>>
    /\ link_log[1].ac_pdu.results[1].transfer_syntax = ImplicitVRLE
    /\ Len(link_log[1].rq_pdu.contexts[1].transfer_syntaxes) = 2

\* The abstract syntaxes auto mode can negotiate for a Link
Negotiable(i) ==
    {uid \in AbstractSyntaxes : OnBothSides(i, uid) /\ CommonPositions(i, uid) # {}}

\* SCU {Verification: [Implicit, Explicit], CT: [Explicit]} against
\* SCP {Verification: [Explicit], CT: [Implicit, Explicit]}
IsSymmetryExample(i) ==
    /\ ScuSops(i) = <<MkSop(Verification, "SCU", <<ImplicitVRLE, ExplicitVRLE>>),
                      MkSop(CTImageStorage, "SCU", <<ExplicitVRLE>>)>>
    /\ ScpSops(i) = <<MkSop(Verification, "SCP", <<ExplicitVRLE>>),
                      MkSop(CTImageStorage, "SCP", <<ImplicitVRLE, ExplicitVRLE>>)>>

\* C7: in auto mode the k negotiated contexts have exactly the ids 1, 3, ...,
\* 2k-1 in negotiation order, in the RQ and in the AC; and the SCU
\* {Verification: [Implicit, Explicit], CT: [Explicit]} against the SCP
\* {Verification: [Explicit], CT: [Implicit, Explicit]} yields exactly two
\* contexts, ids 1 and 3, both accepted with Explicit VR Little Endian.
C7_AutoIdsAreConsecutiveOdd ==
    \A i \in 1..Len(link_log) : link_log[i].auto /\ link_log[i].stage # "negotiate" =>
        /\ \A k \in 1..Len(link_log[i].rq_contexts) :
              link_log[i].rq_contexts[k].id = 2 * k - 1
        /\ Len(link_log[i].ac_results) = Len(link_log[i].rq_contexts)
        /\ \A k \in 1..Len(link_log[i].ac_results) :
              link_log[i].ac_results[k].id = 2 * k - 1
        /\ link_log[i].err = "none" =>
              /\ link_log[i].rq_pdu.contexts = link_log[i].rq_contexts
              /\ [k \in 1..Len(link_log[i].ac_pdu.results) |->
                     link_log[i].ac_pdu.results[k].id]
                 = [k \in 1..Len(link_log[i].rq_contexts) |-> 2 * k - 1]
        /\ IsSymmetryExample(i) =>
              /\ link_log[i].err = "none"
              /\ [k \in 1..Len(link_log[i].rq_pdu.contexts) |->
                     link_log[i].rq_pdu.contexts[k].id] = <<1, 3>>
              /\ link_log[i].ac_pdu.results =
                     <<[id |-> 1, result |-> 0, transfer_syntax |-> ExplicitVRLE],
                       [id |-> 3, result |-> 0, transfer_syntax |-> ExplicitVRLE]>>

\* The example of C7, negotiated
C7_Witness ==
    /\ pc = "returned"
    /\ Len(link_log) = 1
    /\ link_log[1].auto
    /\ IsSymmetryExample(1)
    /\ Len(link_log[1].rq_pdu.contexts) = 2
    /\ link_log[1].rq_pdu.contexts[2].id = 3

\* C8: in auto mode an abstract syntax for which the SCU and the SCP have no
\* transfer syntax in common is in no context of the RQ, no AC result answers
\* a context of it, and it takes no id: the contexts are those of the
\* negotiable abstract syntaxes alone, with the ids 1, 3, ... 2k-1 for k of
\* them.
C8_AutoOmitsNoCommonTs ==
    \A i \in 1..Len(link_log) : AutoBuilt(i) =>
        /\ \A uid \in AbstractSyntaxes :
              OnBothSides(i, uid) /\ CommonPositions(i, uid) = {} =>
                  \A k \in 1..Len(link_log[i].rq_pdu.contexts) :
                      link_log[i].rq_pdu.contexts[k].abstract_syntax # uid
        /\ Len(link_log[i].rq_pdu.contexts) = Cardinality(Negotiable(i))
        /\ Len(link_log[i].ac_pdu.results) = Cardinality(Negotiable(i))
        /\ {link_log[i].rq_pdu.contexts[k].id : k \in 1..Len(link_log[i].rq_pdu.contexts)}
           = {2 * k - 1 : k \in 1..Cardinality(Negotiable(i))}
        /\ {link_log[i].ac_pdu.results[k].id : k \in 1..Len(link_log[i].ac_pdu.results)}
           = {2 * k - 1 : k \in 1..Cardinality(Negotiable(i))}

\* An abstract syntax without a common transfer syntax, first on the SCU's
\* list, ahead of one that is negotiated and gets the id 1
C8_Witness ==
    /\ pc = "returned"
    /\ Len(link_log) = 1
    /\ AutoBuilt(1)
    /\ Len(ScuSops(1)) = 2
    /\ ScuSops(1)[1].sop_class_uid = MRImageStorage
    /\ OnBothSides(1, MRImageStorage)
    /\ CommonPositions(1, MRImageStorage) = {}
    /\ Len(link_log[1].rq_pdu.contexts) = 1
    /\ link_log[1].rq_pdu.contexts[1].id = 1
    /\ link_log[1].rq_pdu.contexts[1].abstract_syntax = CTImageStorage

\* The context list a Link gives in explicit mode
GivenContexts(i) == scene.links[i].dicom_config.explicit_presentation_contexts.v

\* The AC result C9 expects for a given context
ExpectedResult(ctx, res) ==
    /\ res.id = ctx.id
    /\ IF ctx.transfer_syntaxes # <<>>
       THEN res.result = 0 /\ res.transfer_syntax = ctx.transfer_syntaxes[1]
       ELSE res.result = 4

\* C9: in explicit mode the RQ proposes exactly the Link's given context
\* list, in the given order, and the AC has exactly one result per given
\* context, with the same id: result 0 with the first listed transfer syntax
\* when the context lists transfer syntaxes, result 4 otherwise.
C9_ExplicitUsesGivenList ==
    \A i \in 1..Len(link_log) :
        ~link_log[i].auto /\ link_log[i].stage \in {"rq", "ac", "done"} =>
            /\ link_log[i].rq_contexts = GivenContexts(i)
            /\ Len(link_log[i].ac_results) = Len(GivenContexts(i))
            /\ \A k \in 1..Len(GivenContexts(i)) :
                  ExpectedResult(GivenContexts(i)[k], link_log[i].ac_results[k])
            /\ link_log[i].err = "none" =>
                  /\ link_log[i].rq_pdu.contexts = GivenContexts(i)
                  /\ Len(link_log[i].ac_pdu.results) = Len(GivenContexts(i))
                  /\ \A k \in 1..Len(GivenContexts(i)) :
                        ExpectedResult(GivenContexts(i)[k],
                                       link_log[i].ac_pdu.results[k])

\* An explicit list of a context that lists two transfer syntaxes and one
\* that lists none
C9_Witness ==
    /\ pc = "returned"
    /\ Len(link_log) = 1
    /\ ~link_log[1].auto
    /\ link_log[1].err = "none"
    /\ Len(GivenContexts(1)) = 2
    /\ Len(GivenContexts(1)[1].transfer_syntaxes) = 2
    /\ GivenContexts(1)[2].transfer_syntaxes = <<>>
    /\ link_log[1].ac_pdu.results[1].result = 0
    /\ link_log[1].ac_pdu.results[2].result = 4

\* A rule that is a sentinel, as opposed to a literal value
IsSentinel(rule) == rule.k = "s" /\ StartsWith(rule.s, "AUTO_")

\* The data PDUs among P-DATA-TF PDUs, in order
DataPdus(pdus) == SelectSeq(pdus, LAMBDA p : p.pdvs[1].mch = 2)

\* C10: for every C-STORE operation whose dataset SOPInstanceUID is produced
\* by a sentinel rule and whose command carries an AffectedSOPInstanceUID,
\* the SOPInstanceUID of the dataset sent equals the AffectedSOPInstanceUID
\* of the command sent.
C10_DatasetUidEqualsCommandUid ==
    \A i \in 1..Len(link_log) : \A j \in 1..Len(link_log[i].per_op) :
        LET e == link_log[i].per_op[j]
        IN (/\ ~e.skipped
            /\ e.op.message_type = "C-STORE-RQ"
            /\ DsHas(RulesOf(e.op), "SOPInstanceUID")
            /\ IsSentinel(DsGet(RulesOf(e.op), "SOPInstanceUID"))
            /\ CommandPdus(e.pdus) # <<>>
            /\ DsHas(CommandPdus(e.pdus)[1].pdvs[1].dataset, "AffectedSOPInstanceUID")
            /\ DataPdus(e.pdus) # <<>>
            /\ DsHas(DataPdus(e.pdus)[1].pdvs[1].dataset, "SOPInstanceUID"))
           => DsGet(DataPdus(e.pdus)[1].pdvs[1].dataset, "SOPInstanceUID")
              = DsGet(CommandPdus(e.pdus)[1].pdvs[1].dataset, "AffectedSOPInstanceUID")

\* A C-STORE operation whose command asks for a generated instance UID and
\* whose dataset rule for SOPInstanceUID asks for the command's UID
IsCorrelatedStore(op) ==
    /\ op.message_type = "C-STORE-RQ"
    /\ op.command_set.AffectedSOPInstanceUID = "AUTO_GENERATE_UID_INSTANCE"
    /\ DsHas(RulesOf(op), "SOPInstanceUID")
    /\ IsStr(DsGet(RulesOf(op), "SOPInstanceUID"),
             "AUTO_FROM_COMMAND_AFFECTED_SOP_INSTANCE_UID")

\* The rules of an operation that generate a UID of their own
UidRules(op) ==
    SelectSeq(RulesOf(op), LAMBDA it :
        \/ IsStr(it[2], "AUTO_GENERATE_UID") \/ IsStr(it[2], "AUTO_GENERATE_UID_INSTANCE")
        \/ IsStr(it[2], "AUTO_GENERATE_UID_STUDY")
        \/ IsStr(it[2], "AUTO_GENERATE_UID_SERIES"))

\* The UIDs pydicom generated among the first n of the run
GeneratedUids(n) == { VS(generate_uid(DEFAULT_UID_PREFIX, k)) : k \in 1..n }

HasAck(seg) == seg.flags \in {"SA", "A", "PA", "FA"}
HasSyn(seg) == seg.flags \in {"S", "SA"}
HasFin(seg) == seg.flags = "FA"
Peer(dir) == IF dir = "c2s" THEN "s2c" ELSE "c2s"
Isn(dir) == IF dir = "c2s" THEN tcp.client_isn ELSE tcp.server_isn

\* The next unconsumed sequence number of the side sending in direction `dir`
\* before the k-th packet: its ISN, one for its SYN, its payload bytes, one
\* for its FIN
NextSeq(pk, k, dir) ==
    Isn(dir)
    + (IF \E j \in 1..(k - 1) : pk[j].dir = dir /\ HasSyn(pk[j]) THEN 1 ELSE 0)
    + SumSeq([j \in 1..(k - 1) |-> IF pk[j].dir = dir THEN pk[j].payload.len ELSE 0])
    + (IF \E j \in 1..(k - 1) : pk[j].dir = dir /\ HasFin(pk[j]) THEN 1 ELSE 0)

\* C12: in the session the synthesizer returns, every segment with the ACK
\* flag has as ack-number the peer's next unconsumed sequence number: the
\* peer's ISN, plus one for its SYN, plus the payload bytes it has sent so
\* far, plus one once its FIN has been sent.
C12_AckIsPeerNextSeq ==
    \A k \in 1..Len(tcp.packets) :
        HasAck(tcp.packets[k])
            => tcp.packets[k].ack = NextSeq(tcp.packets, k, Peer(tcp.packets[k].dir))

\* A session of two P-DATA-TF PDUs whose last ACK acknowledges the server's
\* SYN, its A-ASSOCIATE-AC and its FIN
C12_Witness ==
    /\ pc = "tcp_returned"
    /\ Len(tcp.p_data_tf_pdu_list) = 2
    /\ tcp.associate_ac_pdu_bytes.len = 50
    /\ tcp.packets[Len(tcp.packets)].dir = "c2s"
    /\ tcp.packets[Len(tcp.packets)].ack = tcp.server_isn + 1 + 50 + 1
    /\ tcp.packets[Len(tcp.packets) - 1].ack
         = tcp.client_isn + 1 + tcp.associate_rq_pdu_bytes.len
           + tcp.p_data_tf_pdu_list[1].len + tcp.p_data_tf_pdu_list[2].len + 1

\* C13: within the session the synthesizer returns, the sequence numbers of
\* successive segments sent in the same direction never decrease.
C13_SeqNeverDecreases ==
    \A j, k \in 1..Len(tcp.packets) :
        (j < k /\ tcp.packets[j].dir = tcp.packets[k].dir)
            => tcp.packets[j].seq <= tcp.packets[k].seq

\* A session in which both directions advance: the client by its SYN, the RQ,
\* two P-DATA-TF PDUs and its FIN, the server by its SYN and the AC
C13_Witness ==
    /\ pc = "tcp_returned"
    /\ Len(tcp.p_data_tf_pdu_list) = 2
    /\ tcp.associate_rq_pdu_bytes.len > 0
    /\ tcp.associate_ac_pdu_bytes.len > 0
    /\ tcp.packets[Len(tcp.packets)].seq > tcp.packets[Len(tcp.packets) - 4].seq
    /\ tcp.packets[Len(tcp.packets) - 1].seq > tcp.packets[2].seq + 1

\* The segments between the handshake and the teardown
Middle == SubSeq(tcp.packets, 4, Len(tcp.packets) - 4)
IsPushFrom(seg, dir) == seg.flags = "PA" /\ seg.dir = dir
IsPureAckFrom(seg, dir) == seg.flags = "A" /\ seg.dir = dir /\ seg.payload.len = 0

\* C14 as stated: between the handshake and the teardown every payload is
\* carried by a PSH/ACK segment of the client, and each PSH/ACK segment of the
\* client is immediately followed by a pure ACK of the server.
C14_EveryPayloadFromClient ==
    /\ \A k \in 1..Len(Middle) :
          Middle[k].payload.len > 0 => IsPushFrom(Middle[k], "c2s")
    /\ \A k \in 1..Len(Middle) :
          IsPushFrom(Middle[k], "c2s")
              => k < Len(Middle) /\ IsPureAckFrom(Middle[k + 1], "s2c")

\* C14 amended: between the handshake (SYN, SYN/ACK, ACK) and the teardown
\* (FIN/ACK, ACK, FIN/ACK, ACK) the A-ASSOCIATE-RQ and every P-DATA-TF PDU,
\* in order, are each carried by one PSH/ACK segment of the client immediately
\* followed by one pure ACK of the server, and the A-ASSOCIATE-AC is carried,
\* right after the ACK of the RQ, by one PSH/ACK segment of the server
\* immediately followed by one pure ACK of the client.
C14_PayloadSegmentsAreAcked ==
    pc = "tcp_returned" =>
        LET n == Len(tcp.p_data_tf_pdu_list)
            pk == tcp.packets
        IN /\ Len(pk) >= 7
           /\ <<pk[1].flags, pk[2].flags, pk[3].flags>> = <<"S", "SA", "A">>
           /\ [i \in 1..4 |-> pk[Len(pk) - 4 + i].flags] = <<"FA", "A", "FA", "A">>
           /\ Len(Middle) = 4 + 2 * n
           /\ IsPushFrom(Middle[1], "c2s")
           /\ Middle[1].payload = tcp.associate_rq_pdu_bytes
           /\ IsPureAckFrom(Middle[2], "s2c")
           /\ IsPushFrom(Middle[3], "s2c")
           /\ Middle[3].payload = tcp.associate_ac_pdu_bytes
           /\ IsPureAckFrom(Middle[4], "c2s")
           /\ \A i \in 1..n :
                 /\ IsPushFrom(Middle[3 + 2 * i], "c2s")
                 /\ Middle[3 + 2 * i].payload = tcp.p_data_tf_pdu_list[i]
                 /\ IsPureAckFrom(Middle[4 + 2 * i], "s2c")

\* A session with an A-ASSOCIATE-AC of 120 bytes, sent by the server, and two
\* P-DATA-TF PDUs sent by the client
C14_Witness ==
    /\ pc = "tcp_returned"
    /\ tcp.associate_ac_pdu_bytes.len = 120
    /\ Len(tcp.p_data_tf_pdu_list) = 2
    /\ Len(Middle) = 8
    /\ Middle[3].dir = "s2c" /\ Middle[3].payload.len = 120
    /\ Middle[7].dir = "c2s" /\ Middle[7].payload.len > 0

\* The byte strings given to the synthesizer that are not empty
Payloads == SelectSeq(<<tcp.associate_rq_pdu_bytes, tcp.associate_ac_pdu_bytes>>
                      \o tcp.p_data_tf_pdu_list, LAMBDA b : b.len > 0)

OnePayloadOf50 ==
    /\ pc = "tcp_returned"
    /\ tcp.client_isn = 1000 /\ tcp.server_isn = 2000
    /\ Len(Payloads) = 1 /\ Payloads[1].len = 50

\* C15 as stated: with client ISN 1000, server ISN 2000 and exactly one
\* payload, of 50 bytes, the session has exactly 11 packets.
C15_OnePayloadGivesElevenPackets ==
    OnePayloadOf50 => Len(tcp.packets) = 11

\* C15 amended: with client ISN 1000, server ISN 2000 and exactly one
\* payload, of 50 bytes, the session has exactly 11 packets when the payload
\* is the A-ASSOCIATE-RQ or the A-ASSOCIATE-AC and no P-DATA-TF PDU is given,
\* and exactly 13 when the payload is a P-DATA-TF PDU: a session has 11
\* packets and 2 more for every P-DATA-TF PDU.
C15_ElevenPacketsPlusTwoPerPData ==
    /\ pc = "tcp_returned"
          => Len(tcp.packets) = 11 + 2 * Len(tcp.p_data_tf_pdu_list)
    /\ OnePayloadOf50
          => Len(tcp.packets) = IF tcp.p_data_tf_pdu_list = <<>> THEN 11 ELSE 13

\* The 50-byte payload is the A-ASSOCIATE-RQ: 11 packets
C15_Witness ==
    /\ OnePayloadOf50
    /\ tcp.associate_rq_pdu_bytes.len = 50
    /\ tcp.p_data_tf_pdu_list = <<>>
    /\ Len(tcp.packets) = 11

(***************************************************************************)
(* Properties of the stream extraction.                                    *)
(***************************************************************************)
\* Bit 1 of the message control header: the last-fragment bit of the PDV
LastFragmentBit(mch) == (mch \div 2) % 2 = 1

\* The PDVs before position k of the log that were received on context id
EarlierOn(log, k, id) == {j \in 1..(k - 1) : log[j].presentation_context_id = id}

\* The payloads of the PDVs received on the context of PDV k since the
\* previous PDV with the last-fragment bit on that context, PDV k included
RECURSIVE SinceLastFragment(_, _, _)
SinceLastFragment(log, k, j) ==
    IF j = 0 THEN <<>>
    ELSE IF log[j].presentation_context_id # log[k].presentation_context_id
    THEN SinceLastFragment(log, k, j - 1)
    ELSE IF j < k /\ LastFragmentBit(log[j].mch) THEN <<>>
    ELSE SinceLastFragment(log, k, j - 1) \o log[j].actual_data

\* C16: every PDV's payload is appended to the buffer of its presentation
\* context; a dataset parse is attempted exactly when the PDV has the
\* last-fragment bit (bit 1 of the message control header); the bytes parsed
\* are the payloads received on that context since the previous last
\* fragment, and the buffer is empty afterwards.
C16_ParseAtLastFragmentBit ==
    pc \in {"stream_loop", "pdv_loop", "stream_returned"} =>
        \A k \in 1..Len(ext.parse_log) :
            /\ ext.parse_log[k].attempted <=> LastFragmentBit(ext.parse_log[k].mch)
            /\ ext.parse_log[k].attempted =>
                  /\ ext.parse_log[k].fragment_data
                        = SinceLastFragment(ext.parse_log, k, k)
                  /\ ext.parse_log[k].buffer_after = <<>>
            /\ ~ext.parse_log[k].attempted =>
                  ext.parse_log[k].buffer_after = SinceLastFragment(ext.parse_log, k, k)

\* The byte offset at which PDV j of PDU i of a stream ends
PdvEnd(stream, i, j) ==
    StreamLen(SubSeq(stream, 1, i - 1)) + 6 + SumLen(SubSeq(stream[i].pdvs, 1, j), PdvLen)

\* PDV j of PDU i is whole: it ends within its PDU and before the truncation
CompletePdv(e, i, j) ==
    /\ 6 + SumLen(SubSeq(e.stream[i].pdvs, 1, j), PdvLen) <= e.stream[i].len
    /\ PdvEnd(e.stream, i, j) <= e.avail

\* PDV j of PDU i carries a whole dataset with a Manufacturer: it has the
\* last-fragment bit and is the first PDV of the stream on its context
CarriesManufacturer(stream, i, j) ==
    /\ LastFragmentBit(stream[i].pdvs[j].mch)
    /\ DsHas(stream[i].pdvs[j].dataset, "Manufacturer")
    /\ \A i2 \in 1..i : \A j2 \in 1..Len(stream[i2].pdvs) :
          (i2 < i \/ j2 < j) =>
             stream[i2].pdvs[j2].presentation_context_id
                # stream[i].pdvs[j].presentation_context_id

\* C18: on a byte stream truncated at any point the stream extraction does not
\* raise, and its result has the metadata of every complete PDV before the
\* truncation point.
C18_TruncationKeepsCompletePdvs ==
    pc = "stream_returned" =>
        /\ raised = "none"
        /\ \A i \in 1..Len(ext.stream) : \A j \in 1..Len(ext.stream[i].pdvs) :
              CompletePdv(ext, i, j) /\ CarriesManufacturer(ext.stream, i, j) =>
                 /\ ext.result.some
                 /\ ext.result.v.Manufacturer
                       = ReadValue(DsGet(ext.stream[i].pdvs[j].dataset, "Manufacturer"))

(***************************************************************************)
(* Properties of the extraction from a capture.                            *)
(***************************************************************************)
\* The whole of the packets of process_scene was read
WholeCapture == Len(ext.packets) = Len(all_packets)

\* Link i was synthesized with the AE titles SCU1 and SCP1 and a data set
\* whose Manufacturer is Acme
IsRoundTripLink(i) ==
    /\ link_log[i].err = "none"
    /\ link_log[i].rq_pdu.calling_ae_title = "SCU1"
    /\ link_log[i].rq_pdu.called_ae_title = "SCP1"
    /\ \E k \in 1..Len(link_log[i].p_data) :
          /\ link_log[i].p_data[k].pdvs[1].mch = MessageControlHeader(FALSE)
          /\ DsGet(link_log[i].p_data[k].pdvs[1].dataset, "Manufacturer") = VS("Acme")

\* The aggregated record of the IP pair of Link i has the three values
HasRoundTripRecord(i) ==
    /\ agg_key(<<link_log[i].conn.source_ip, link_log[i].conn.destination_ip>>)
          \in DOMAIN ext.aggregated_results
    /\ \E rec \in {ext.aggregated_results[
                      agg_key(<<link_log[i].conn.source_ip,
                                link_log[i].conn.destination_ip>>)]} :
          /\ rec.client_ip = link_log[i].conn.source_ip
          /\ rec.server_ip = link_log[i].conn.destination_ip
          /\ rec.CallingAE = VS("SCU1")
          /\ rec.CalledAE = VS("SCP1")
          /\ rec.Manufacturer = VS("Acme")

\* C17: the packets synthesized from a Scene with calling AE title SCU1,
\* called AE title SCP1 and a dataset Manufacturer of Acme, fed to the
\* extractor, give an aggregated record of that IP pair with CallingAE SCU1,
\* CalledAE SCP1 and Manufacturer Acme.
C17_RoundTripKeepsTitlesAndManufacturer ==
    pc = "pcap_returned" /\ WholeCapture =>
        \A i \in 1..Len(link_log) : IsRoundTripLink(i) => HasRoundTripRecord(i)

\* The structured parse of the A-ASSOCIATE PDUs of a stream found AE titles
StructuredTitles(entry) ==
    Truthy(entry.found_metadata.CallingAE) /\ Truthy(entry.found_metadata.CalledAE)

\* The raw-offset scan found an AE title for the stream: a packet of the
\* capture with an A-ASSOCIATE PDU and a title that is not blank, whose key is
\* the (client IP, server IP, server port) of the stream
ScanTitles(entry) ==
    \E n \in 1..Len(ext.packets) :
        /\ ext.packets[n].payload.pdu_type \in {1, 2}
        /\ ext.packets[n].payload.len >= 42
        /\ \/ strip(AeTitleField(ext.packets[n].payload.calling_ae_title)) # ""
           \/ strip(AeTitleField(ext.packets[n].payload.called_ae_title)) # ""
        /\ primary_key(ext.packets[n]) = entry.key

\* A dataset of the stream was parsed
DatasetParsed(entry) ==
    \E k \in 1..Len(entry.parse_log) : entry.parse_log[k].outcome = "parsed"

\* The records of results_by_ip, in the order of its keys
RECURSIVE StoredRecords(_)
StoredRecords(results_by_ip) ==
    IF results_by_ip = <<>> THEN <<>>
    ELSE [i \in 1..Len(Head(results_by_ip).comm_list) |->
             [key |-> Head(results_by_ip).key, metadata |-> Head(results_by_ip).comm_list[i]]]
         \o StoredRecords(Tail(results_by_ip))

ObservedLinks == {i \in 1..Len(link_log) : link_log[i].err = "none"}

\* The (client IP, server IP) pair of Link i
IpPair(i) == <<link_log[i].conn.source_ip, link_log[i].conn.destination_ip>>

\* The server ports of the observed Links of one pair
PairPorts(pair) ==
    {link_log[i].conn.destination_port : i \in {j \in ObservedLinks : IpPair(j) = pair}}

\* C20: the aggregated result of a whole capture has one record for each
\* (client IP, server IP) pair of the DICOM streams in the capture and no
\* other record, and the server_ports of the record are the server ports of
\* all the streams of the pair.
C20_OneRecordPerPairWithAllPorts ==
    (pc = "pcap_returned" /\ WholeCapture) =>
        /\ DOMAIN ext.aggregated_results = {agg_key(IpPair(i)) : i \in ObservedLinks}
        /\ \A i \in ObservedLinks :
              agg_key(IpPair(i)) \in DOMAIN ext.aggregated_results =>
                 /\ ext.aggregated_results[agg_key(IpPair(i))].client_ip = IpPair(i)[1]
                 /\ ext.aggregated_results[agg_key(IpPair(i))].server_ip = IpPair(i)[2]
                 /\ ext.aggregated_results[agg_key(IpPair(i))].server_ports
                       = sorted(PairPorts(IpPair(i)))

\* The metadata fields of a record, and those read from the datasets
MetadataFields ==
    {"CallingAE", "CalledAE", "ImplementationClassUID", "ImplementationVersionName",
     "negotiation_successful", "Manufacturer", "ManufacturerModelName",
     "DeviceSerialNumber", "SoftwareVersions", "TransducerData", "StationName"}
DeviceFields ==
    {"Manufacturer", "ManufacturerModelName", "DeviceSerialNumber", "SoftwareVersions",
     "TransducerData", "StationName"}

\* The sessions whose record is merged into the record of an IP pair and has
\* a value of the field
Contributors(k, field) ==
    {n \in 1..Len(ext.session_log) :
        /\ ext.session_log[n].records # <<>>
        /\ agg_key(ext.session_log[n].key) = k
        /\ ext.session_log[n].records[1][field] # VNone}

\* The first session with a record under the (client IP, server IP, server
\* port) key of session n
FirstOfKey(n) ==
    CHOOSE m \in 1..Len(ext.session_log) :
        /\ ext.session_log[m].records # <<>>
        /\ ext.session_log[m].key = ext.session_log[n].key
        /\ \A j \in 1..(m - 1) :
              ~(ext.session_log[j].records # <<>>
                /\ ext.session_log[j].key = ext.session_log[n].key)

\* Session a is merged before session b: the keys are taken in the order of
\* their first record, the records of one key in the order of the sessions
MergedBefore(a, b) ==
    \/ FirstOfKey(a) < FirstOfKey(b)
    \/ FirstOfKey(a) = FirstOfKey(b) /\ a <= b

\* The values of a field in the datasets parsed so far, and the first of them
\* that is not None
ParsedValues(parse_log, field) ==
    {k \in 1..Len(parse_log) :
        /\ parse_log[k].outcome = "parsed"
        /\ DatasetGet(dcmread(parse_log[k].fragment_data), field) # VNone}
FirstParsedValue(parse_log, field) ==
    IF ParsedValues(parse_log, field) = {} THEN VNone
    ELSE DatasetGet(
            dcmread(parse_log[CHOOSE k \in ParsedValues(parse_log, field) :
                                 \A j \in ParsedValues(parse_log, field) : k <= j]
                       .fragment_data),
            field)

\* Within one stream a device field is the first value that is not None
StreamKeepsFirst ==
    /\ pc \in {"stream_loop", "pdv_loop", "stream_returned"} =>
          \A field \in DeviceFields :
             ext.found_metadata[field] = FirstParsedValue(ext.parse_log, field)
    /\ pc \in {"sessions", "stream_loop", "pdv_loop", "stream_returned", "pcap_returned"} =>
       \A n \in 1..Len(ext.session_log) : \A field \in DeviceFields :
          /\ ext.session_log[n].found_metadata[field]
                = FirstParsedValue(ext.session_log[n].parse_log, field)
          /\ ext.session_log[n].records # <<>> =>
                ext.session_log[n].records[1][field]
                   = ext.session_log[n].found_metadata[field]

\* C21 as stated: a field of an aggregated record is the first value that is
\* not None over the contributing streams in the order in which the streams
\* are processed, and within one stream a device field keeps the first value
\* that is not None.
C21_FirstNonNullInStreamOrder ==
    /\ StreamKeepsFirst
    /\ pc = "pcap_returned" =>
          \A k \in DOMAIN ext.aggregated_results : \A field \in MetadataFields :
             IF Contributors(k, field) = {}
             THEN ext.aggregated_results[k][field] = VNone
             ELSE \E n \in Contributors(k, field) :
                     /\ \A m \in Contributors(k, field) : n <= m
                     /\ ext.aggregated_results[k][field]
                           = ext.session_log[n].records[1][field]

\* C21 amended: a field of an aggregated record is the first value that is not
\* None over the contributing streams in the order of the aggregation, which
\* takes the (client IP, server IP, server port) keys in the order of their
\* first record and the streams of one key in processing order; within one
\* stream a device field keeps the first value that is not None.
C21_FirstNonNullInAggregationOrder ==
    /\ StreamKeepsFirst
    /\ pc = "pcap_returned" =>
          \A k \in DOMAIN ext.aggregated_results : \A field \in MetadataFields :
             IF Contributors(k, field) = {}
             THEN ext.aggregated_results[k][field] = VNone
             ELSE \E n \in Contributors(k, field) :
                     /\ \A m \in Contributors(k, field) : MergedBefore(n, m)
                     /\ ext.aggregated_results[k][field]
                           = ext.session_log[n].records[1][field]

\* A capture in which a stream parsed Acme and then Zeta and kept Acme, and in
\* which the aggregated Manufacturer is that of a stream processed after a
\* stream of another server port with another Manufacturer
C21_Witness ==
    /\ pc = "pcap_returned"
    /\ \E n \in 1..Len(ext.session_log) :
          /\ ext.session_log[n].found_metadata.Manufacturer = VS("Acme")
          /\ \E k \in ParsedValues(ext.session_log[n].parse_log, "Manufacturer") :
                DatasetGet(dcmread(ext.session_log[n].parse_log[k].fragment_data),
                           "Manufacturer") = VS("Zeta")
    /\ \E k \in DOMAIN ext.aggregated_results :
       \E n, m \in Contributors(k, "Manufacturer") :
          /\ n < m
          /\ ~MergedBefore(n, m)
          /\ ext.session_log[n].records[1].Manufacturer
                # ext.session_log[m].records[1].Manufacturer
          /\ ext.aggregated_results[k].Manufacturer
                = ext.session_log[m].records[1].Manufacturer

(***************************************************************************)
(* Properties of the background jobs and their operations.                 *)
(***************************************************************************)
\* The operation was called with its callbacks on a capture that has packets
PolledOperation ==
    /\ job.driver = "direct"
    /\ job.capture_found
    /\ PacketCount(job.capture) > 0

\* The operation ended by raising its cancellation signal
EndedCancelled == pc = "op_raised" /\ job.exception \in CancelSignals

\* C22: an operation that is given should_stop() polls it at least once in
\* every 100 packets and at the final packet, and a stop request that is in
\* place before the final packet is processed ends the operation by the
\* cancellation signal, never by a return or by another exception.
C22_PollsEvery100PacketsAndAtFinal ==
    PolledOperation =>
        /\ job.since_poll <= POLL_INTERVAL
        /\ job.final_poll # "skipped"
        /\ pc \in {"op_returned", "op_raised"} /\ job.early_stop => EndedCancelled

\* A job of a runner on a capture that is in the store and has packets
RunnerJob ==
    /\ job.driver = "runner"
    /\ job.capture_found
    /\ PacketCount(job.capture) > 0

JobRow(j) ==
    [status |-> j.status, stop_requested |-> j.stop_requested,
     output_trace_id |-> j.output_trace_id, result_data |-> j.result_data]

\* The outcome of a job of a runner, from its type, its capture and the point
\* at which its first cancel request arrived
FinalStatus(j) ==
    IF j.accepted_at = "queued" THEN "cancelled"
    ELSE IF j.job_type = "mac_transform" /\ j.capture_found THEN "completed"
    ELSE "failed"

\* A request for a job that was already asked to stop leaves the job as it is
SecondRequestIsNoOp ==
    [][(job.driver # "none" /\ job.stop_requested /\ job'.requests = job.requests + 1) =>
          /\ job' = [job EXCEPT !.requests = @ + 1, !.response = 400]
          /\ JobRow(job') = JobRow(job)
          /\ pc' = pc]_vars

\* C24: a second stop request leaves the job exactly as the first left it, and
\* the final outcome of the job is the one it has with a single request: it
\* depends on the first request alone.
C24_StopTwiceIsStopOnce ==
    /\ SecondRequestIsNoOp
    /\ [](job.driver = "runner" /\ pc = "finished" => job.status = FinalStatus(job))

\* A finished job that was asked to stop twice, the first time while running
C24_Witness ==
    /\ job.driver = "runner"
    /\ pc = "finished"
    /\ job.requests = 2
    /\ job.accepted_at = "loop"
    /\ job.response = 400

\* C25: a job that ends cancelled, and an operation that ends by its
\* cancellation signal, has written no output capture and has no output trace
\* recorded for it.
C25_CancelledJobHasNoOutput ==
    (job.status = "cancelled" \/ EndedCancelled) =>
        /\ job.files = {}
        /\ job.traces = {}
        /\ ~job.output_trace_id

\* An anonymization that was stopped after it had processed a full polling
\* interval of packets
C25_Witness ==
    /\ EndedCancelled
    /\ job.job_type = "transform"
    /\ job.new_packets >= POLL_INTERVAL
    /\ job.files = {}

\* C26: while an invocation of the anonymization is in its packet loop, every
\* entry of the address maps it uses was written by that invocation, it has
\* read no entry written by another invocation, and no other invocation has
\* emptied the maps under it.
C26_MapsOwnedByOneInvocation ==
    pc = "anonymizer" =>
        \A k \in Invocations :
            anon.inv[k].at = "loop" =>
                /\ ~Foreign(anon.ip_map, k)
                /\ ~Foreign(anon.mac_map, k)
                /\ ~anon.inv[k].foreign_read
                /\ ~anon.inv[k].wiped

(***************************************************************************)
(* Properties of the association and of the default DIMSE sequence.        *)
(***************************************************************************)
\* The segments of a packet list the server sends with the PSH flag: the
\* place of the A-ASSOCIATE-AC in the session
AcSegments(packets) ==
    {i \in 1..Len(packets) : packets[i].dir = "s2c" /\ packets[i].flags = "PA"}

\* C27: a Link whose negotiation yields no context result has no
\* A-ASSOCIATE-AC: no AC bytes are built and no segment of its packet sequence
\* stands for one.
C27_NoAcSegmentWithoutResults ==
    \A n \in 1..Len(link_log) :
        (link_log[n].err = "none" /\ link_log[n].ac_results = <<>>) =>
            /\ link_log[n].ac_pdu = NoPdu
            /\ AcSegments(link_log[n].packets) = {}

\* A Link without DIMSE operations whose association was built
EmptySequenceLink(i) == link_log[i].err = "none" /\ OpsOfLink(i) = <<>>

\* The positions of the proposed Verification contexts the AC accepts: the
\* negotiation appends the result of a context when it appends the context
AcceptedVerification(i) ==
    {k \in 1..Len(link_log[i].rq_contexts) :
        /\ link_log[i].rq_contexts[k].abstract_syntax = Verification
        /\ link_log[i].ac_results[k].result = 0}

\* The Link generated one C-ECHO-RQ, in one command PDU, on the id `id`
OneEchoOn(i, id) ==
    /\ Len(link_log[i].per_op) = 1
    /\ link_log[i].per_op[1].op.message_type = "C-ECHO-RQ"
    /\ link_log[i].per_op[1].op.presentation_context_id = id
    /\ ~link_log[i].per_op[1].skipped
    /\ Len(link_log[i].p_data) = 1
    /\ link_log[i].p_data[1].pdvs[1].mch = 3
    /\ link_log[i].p_data[1].pdvs[1].presentation_context_id = id
    /\ DsGet(link_log[i].p_data[1].pdvs[1].dataset, "AffectedSOPClassUID")
          = VS(Verification)

\* C28: a Link whose DIMSE sequence is empty generates exactly one C-ECHO-RQ,
\* on the id of the accepted Verification context, when the negotiation
\* accepted a Verification context, and no DIMSE PDU at all when it did not.
C28_EmptySequenceGivesOneEcho ==
    \A i \in 1..Len(link_log) :
        EmptySequenceLink(i) =>
            IF AcceptedVerification(i) # {}
            THEN \E k \in AcceptedVerification(i) :
                    OneEchoOn(i, link_log[i].rq_contexts[k].id)
            ELSE link_log[i].per_op = <<>> /\ link_log[i].p_data = <<>>

\* The ids of the proposed contexts are pairwise distinct
DistinctIds(i) ==
    \A k, m \in 1..Len(link_log[i].rq_contexts) :
        k # m => link_log[i].rq_contexts[k].id # link_log[i].rq_contexts[m].id

\* C29: after the auto-mode negotiation of a Link, the Link's
\* explicit_presentation_contexts is exactly the list of contexts proposed in
\* the RQ, and the A-ASSOCIATE-RQ carries that same list.
C29_AutoModeFillsExplicitContexts ==
    \A i \in 1..Len(link_log) :
        link_log[i].auto /\ link_log[i].stage \in {"rq", "ac", "done"} =>
            /\ scene.links[i].dicom_config.explicit_presentation_contexts
                  = Some(link_log[i].rq_contexts)
            /\ link_log[i].err = "none" =>
                  link_log[i].rq_pdu.contexts = link_log[i].rq_contexts

\* An auto-mode Link for which two contexts were proposed
C29_Witness ==
    /\ pc = "returned"
    /\ Len(link_log) = 1
    /\ link_log[1].auto
    /\ link_log[1].err = "none"
    /\ Len(link_log[1].rq_contexts) = 2
    /\ Len(scene.links[1].dicom_config.explicit_presentation_contexts.v) = 2
    /\ Len(link_log[1].rq_pdu.contexts) = 2

\* C30, as stated: no step of process_scene changes a field of the Scene.
C30_SceneIsReadOnly == [][scene' = scene]_vars

\* The Link is the one just processed, in auto mode, and differs only by its
\* explicit_presentation_contexts, now the list proposed for it
OnlyContextsFilled(i) ==
    /\ IsAutoMode(scene.links[i])
    /\ i = Len(link_log')
    /\ scene'.links[i] =
          [scene.links[i] EXCEPT
              !.dicom_config.explicit_presentation_contexts =
                  Some(link_log'[i].rq_contexts)]

\* C30, amended: a step of process_scene changes nothing of the Scene but the
\* explicit_presentation_contexts of the auto-mode Link it negotiates.
C30_SceneReadOnlyButAutoContexts ==
    [][/\ scene'.assets = scene.assets
       /\ DOMAIN scene'.links = DOMAIN scene.links
       /\ \A i \in DOMAIN scene.links :
             scene'.links[i] = scene.links[i] \/ OnlyContextsFilled(i)]_vars

\* A Scene of two Links after processing: the first, explicit, is as it was
\* given and the second, auto, now lists the contexts proposed for it
C30_Witness ==
    /\ pc = "returned"
    /\ Len(link_log) = 2
    /\ ~link_log[1].auto /\ link_log[1].err = "none"
    /\ link_log[2].auto /\ link_log[2].err = "none"
    /\ scene.links[2].dicom_config.explicit_presentation_contexts.some
    /\ scene.links[2].dicom_config.explicit_presentation_contexts.v # <<>>

(***************************************************************************)
(* Properties of the resolution of Asset properties.                       *)
(***************************************************************************)
\* The Asset references a template
HasTemplate(asset) ==
    asset.asset_template_id_ref # None /\ asset.asset_template_id_ref # ""

\* The Asset references a template that is missing or invalid
BrokenTemplate(asset) ==
    HasTemplate(asset) /\ TemplateStore(asset.asset_template_id_ref).load # "ok"

\* C31: when the template of an Asset of the Scene is missing or invalid,
\* process_scene raises a DicomSceneProcessorError from the resolution of its
\* Assets: no Link is processed and no packet is returned.
C31_BrokenTemplateAbortsScene ==
    (pc # "start" /\ \E i \in 1..Len(scene.assets) : BrokenTemplate(scene.assets[i])) =>
        /\ pc = "raised"
        /\ raised = "DicomSceneProcessorError"
        /\ link_log = <<>>
        /\ all_packets = <<>>

\* A Scene aborted by the invalid properties of the template of its second
\* Asset, after the first Asset was resolved
C31_Witness ==
    /\ pc = "raised"
    /\ raised = "DicomSceneProcessorError"
    /\ Len(scene.assets) = 2
    /\ scene.assets[2].asset_template_id_ref = "TEMPLATE_BAD_PROPS"
    /\ Len(cache) = 1
    /\ all_packets = <<>>

\* The Asset of the Scene an id stands for, and its loaded template
AssetOf(asset_id) == AssetMapGet(scene.assets, asset_id)
TemplateOf(asset_id) == TemplateStore(AssetOf(asset_id).asset_template_id_ref).props

\* C32: every field of the resolved properties of an Asset that references a
\* template is the Asset's value when the Asset set the field and the
\* template's value otherwise; a list the Asset set is the Asset's list, whole.
C32_TemplateOverlaidBySetFields ==
    \A n \in 1..Len(cache) :
        HasTemplate(AssetOf(cache[n][1])) =>
            \A f \in PropFields :
                cache[n][2][f] =
                    IF f \in AssetOf(cache[n][1]).dicom_properties.fields_set
                    THEN AssetOf(cache[n][1]).dicom_properties[f]
                    ELSE TemplateOf(cache[n][1])[f]

\* An Asset that sets its manufacturer to None and gives one SOP class over a
\* template that names a manufacturer, an AE title and two SOP classes
C32_Witness ==
    /\ pc = "returned"
    /\ CacheHas(cache, "ASSET_CT")
    /\ AssetOf("ASSET_CT").asset_template_id_ref = "TEMPLATE_GENERIC_CT_V1"
    /\ AssetOf("ASSET_CT").dicom_properties.fields_set
          = {"manufacturer", "supported_sop_classes"}
    /\ CacheGet(cache, "ASSET_CT").manufacturer = None
    /\ CacheGet(cache, "ASSET_CT").ae_title = "TPL_CT_AE"
    /\ Len(CacheGet(cache, "ASSET_CT").supported_sop_classes.v) = 1
    /\ Len(TemplateOf("ASSET_CT").supported_sop_classes.v) = 2

(***************************************************************************)
(* Properties of the data dataset.                                         *)
(***************************************************************************)
\* The group of a rule: 1 Study UID, 2 Series UID, 3 Instance UID, 4 others
RuleGroup(rule) ==
    IF IsStr(rule, "AUTO_GENERATE_UID_STUDY") THEN 1
    ELSE IF IsStr(rule, "AUTO_GENERATE_UID_SERIES") THEN 2
    ELSE IF IsStr(rule, "AUTO_GENERATE_UID_INSTANCE") THEN 3
    ELSE 4
RuleOf(rules, tag) == rules[CHOOSE k \in 1..Len(rules) : rules[k][1] = tag][2]

\* `order` takes every rule of `rules` once, group by group and by ascending
\* keyword within a group
ResolvedInGroupOrder(rules, order) ==
    /\ Len(order) = Len(rules)
    /\ Range(order) = {rules[k][1] : k \in 1..Len(rules)}
    /\ \A a, b \in 1..Len(order) :
          a < b =>
             \/ RuleGroup(RuleOf(rules, order[a])) < RuleGroup(RuleOf(rules, order[b]))
             \/ /\ RuleGroup(RuleOf(rules, order[a])) = RuleGroup(RuleOf(rules, order[b]))
                /\ KeywordRank(order[a]) < KeywordRank(order[b])

\* C33: whatever the order of the rules in the input mapping, the rules of a
\* dataset are resolved Study-UID rules first, then Series-UID rules, then
\* Instance-UID rules, then all the others, each group by ascending keyword.
C33_RulesResolvedByGroupThenKeyword ==
    \A i \in 1..Len(link_log) : \A j \in 1..Len(link_log[i].per_op) :
        (~link_log[i].per_op[j].skipped
         /\ link_log[i].per_op[j].op.dataset_content_rules.some) =>
            ResolvedInGroupOrder(link_log[i].per_op[j].op.dataset_content_rules.v,
                                 link_log[i].per_op[j].order)

\* A mapping that lists a value, a Series rule and a Study rule in that order
\* under keywords in descending order: the Study rule takes the first UID
C33_Witness ==
    /\ pc = "returned" /\ Len(link_log) = 1 /\ Len(link_log[1].per_op) = 1
    /\ link_log[1].per_op[1].op.dataset_content_rules
          = Some(<<<<"StudyInstanceUID", VS("P1")>>,
                   <<"SeriesInstanceUID", VS("AUTO_GENERATE_UID_SERIES")>>,
                   <<"PatientID", VS("AUTO_GENERATE_UID_STUDY")>>>>)
    /\ link_log[1].per_op[1].order = <<"PatientID", "SeriesInstanceUID", "StudyInstanceUID">>
    /\ link_log[1].per_op[1].uids = 2
    /\ DsGet(DataPdus(link_log[1].per_op[1].pdus)[1].pdvs[1].dataset, "PatientID")
          = VS(generate_uid(STUDY_UID_PREFIX, 1))

(***************************************************************************)
(* Properties of the derived connection details.                           *)
(***************************************************************************)
\* The node of the SCP asset of a Link: the node the Link names on the side
\* (source or destination) of its SCP asset
ScpNodeRef(link) ==
    IF link.dicom_config.scp_asset_id_ref = link.destination_asset_id_ref
    THEN link.destination_node_id_ref ELSE link.source_node_id_ref
ScpNodePort(assets, link) ==
    get_node_from_asset(AssetMapGet(assets, link.dicom_config.scp_asset_id_ref),
                        ScpNodeRef(link)).node.dicom_port

\* C34: for a Link without explicit connection details the derived
\* destination port is the DICOM port of the node of the Link's SCP asset,
\* and 104 when that node configures none.
C34_DestinationPortIsScpNodePort ==
    \A i \in 1..Len(link_log) :
        (link_log[i].err = "none" /\ ~scene.links[i].connection_details.some) =>
            link_log[i].conn.destination_port =
                IF ScpNodePort(scene.assets, scene.links[i]) = NoneInt
                THEN DEFAULT_DICOM_PORT
                ELSE ScpNodePort(scene.assets, scene.links[i])

(***************************************************************************)
(* Properties of the life of a job.                                        *)
(***************************************************************************)
\* C35: every job of a runner eventually reaches one of the statuses
\* completed, failed and cancelled, also when the backend restarts while the
\* job exists: no job stays pending, running or cancelling forever.
C35_EveryJobEndsTerminal ==
    <>(job.driver = "runner" => job.status \in TerminalStatuses)

\* C36: once a cancel request for a job was accepted (the job was moved to
\* cancelling with stop_requested set), the job never has the status completed.
C36_AcceptedCancelNeverCompleted ==
    (job.driver = "runner" /\ job.stop_requested) => job.status # "completed"

\* C37: a job with a terminal status never changes status again, whatever
\* step is taken: of its background task, a cancel request, a deletion
\* request or a restart of the backend.
C37_TerminalStatusIsFinal ==
    [][job.status \in TerminalStatuses => job'.status = job.status]_vars

\* A completed job that refused a cancel request and then saw a restart
C37_Witness ==
    /\ pc = "restarted"
    /\ job.status = "completed"
    /\ job.requests = 1 /\ ~job.stop_requested

(***************************************************************************)
(* Properties of the reassembly of PDV fragments.                          *)
(***************************************************************************)
\* A PDV carries a fragment of a command set when bit 0 of its message
\* control header is set (the PDVs of the streams are written that way), of
\* a data set otherwise
CarriesCommand(mch) == mch % 2 = 1

\* PDV m of the parse log is part of the buffer that was parsed at PDV n: it
\* came on the same presentation context, with bytes, and the buffer of the
\* context was not parsed between the two
InParsedBuffer(log, m, n) ==
    /\ m <= n
    /\ log[m].presentation_context_id = log[n].presentation_context_id
    /\ log[m].actual_data # <<>>
    /\ \A k \in m..(n - 1) :
          log[k].presentation_context_id = log[n].presentation_context_id
             => ~log[k].attempted

ScannedPackets ==
    { ext.packets[i] : i \in { j \in 1..Len(ext.packets) :
        /\ HasRaw(ext.packets[j]) /\ ext.packets[j].payload.len >= 42
        /\ ext.packets[j].payload.pdu_type \in {1, 2}
        /\ \/ strip(AeTitleField(ext.packets[j].payload.called_ae_title)) # ""
           \/ strip(AeTitleField(ext.packets[j].payload.calling_ae_title)) # "" } }

\* The (client IP, server IP, server port) key of the TCP session of an
\* A-ASSOCIATE packet: the RQ travels from the client, the AC from the server
SessionCommKey(pkt) ==
    IF pkt.payload.pdu_type = 1 THEN <<pkt.src_ip, pkt.dst_ip, pkt.dport>>
    ELSE <<pkt.dst_ip, pkt.src_ip, pkt.sport>>

\* C40: the titles the raw-offset scan takes from an A-ASSOCIATE-RQ packet
\* and from the matching A-ASSOCIATE-AC packet are stored under the (client
\* IP, server IP, server port) key of their TCP session, the key under which
\* the record of the stream of that session is looked up, and under no other.
C40_ScannedTitlesUnderSessionKey ==
    pc \in {"sessions", "stream_loop", "pdv_loop", "stream_returned", "pcap_returned"} =>
        /\ \A pkt \in ScannedPackets :
              SessionCommKey(pkt) \in DOMAIN ext.ae_titles_from_summary
        /\ \A key \in DOMAIN ext.ae_titles_from_summary :
              \E pkt \in ScannedPackets : key = SessionCommKey(pkt)

(***************************************************************************)
(* Properties of a second processing of a Scene.                           *)
(***************************************************************************)
\* The log entry of Link i in the second call of process_scene
SecondRun(i) == link_log[Len(scene.links) + i]

\* C39: a second processing of the same Scene object negotiates what the
\* first did: for every Link the proposed contexts and the transfer syntax
\* accepted for each of them are those of the first run.
C39_SecondRunNegotiatesTheSame ==
    (pc = "returned" /\ Len(link_log) = 2 * Len(scene.links)) =>
        \A i \in 1..Len(scene.links) :
            /\ SecondRun(i).rq_contexts = link_log[i].rq_contexts
            /\ SecondRun(i).ac_results = link_log[i].ac_results

====
